---- MODULE Spec2Model ----
(***************************************************************************)
(* remarkable-rs: the reMarkable cloud client.                             *)
(*                                                                         *)
(*  - Spec:      one invocation of upload_zip or create_folder on a        *)
(*               Client, against a remote that may answer anything         *)
(*               (client.rs).                                              *)
(*  - SpecIndex: the Documents index (documents.rs): records are inserted  *)
(*               as visit_seq does and paths are resolved by get_by_path.  *)
(*  - SpecPair:  two invocations on one Client, interleaved at their      *)
(*               awaits.                                                   *)
(*  - SpecTree:  get_by_path over the indexes of a three-level tree.       *)
(*  - SpecSeq:   Documents deserialized from a given JSON sequence, then   *)
(*               get and children.                                         *)
(*  - SpecZip:   id_from_zip and replace_id_in_zip over archives.          *)
(*  - SpecWire:  the wire form of Parent, written and read.                *)
(***************************************************************************)
EXTENDS Integers, Sequences, FiniteSets, TLC

(***************************************************************************)
(* Bounds of the model.                                                    *)
(***************************************************************************)
\* number of distinct uuids
NumUuid == 2
\* longest JSON array the remote answers with
MaxResp == 2
\* longest path handed to get_by_path, in components
MaxPath == 2
\* most entries of an archive handed to id_from_zip and replace_id_in_zip
MaxEntries == 2
\* longest string handed to deserialize_rm_parent, in pieces of text
MaxText == 2
MaxVersion == 2

Uuids == 1..NumUuid

\* std::option::Option<Uuid>: None, or Some(u)
None == 0
Some(u) == u

(***************************************************************************)
(* documents.rs: Parent                                                    *)
(***************************************************************************)
Root == [tag |-> "Root", id |-> None]
Trash == [tag |-> "Trash", id |-> None]
Node(u) == [tag |-> "Node", id |-> u]
Parent == {Root, Trash} \cup {Node(u) : u \in Uuids}

(***************************************************************************)
(* Text of a uuid.  A name is a sequence of tokens; a token is a literal   *)
(* piece of text or the text of a uuid in one of the forms                 *)
(* Uuid::parse_str accepts.  Uuid's Display (to_string, format!("{}"))     *)
(* always writes the hyphenated lower-case form.  Literal tokens never     *)
(* contain the text of a uuid, and the suffix ".content" is always a      *)
(* token of its own.                                                       *)
(***************************************************************************)
UuidForms == {"hyphenated", "simple"}
UuidText(u, form) == [k |-> "uuid", u |-> u, s |-> form]
Lit(s) == [k |-> "lit", u |-> None, s |-> s]
to_string(u) == UuidText(u, "hyphenated")

\* Uuid::parse_str over a token sequence: Ok(u) for the text of one uuid
parse_str(text) ==
    IF Len(text) = 1 /\ text[1].k = "uuid"
    THEN [ok |-> TRUE, id |-> text[1].u]
    ELSE [ok |-> FALSE, id |-> None]

\* str::ends_with(".content")
ends_with_content(name) == Len(name) > 0 /\ name[Len(name)] = Lit(".content")

\* str::trim_end_matches(".content"): strips the suffix repeatedly
RECURSIVE trim_end_matches_content(_)
trim_end_matches_content(name) ==
    IF ends_with_content(name)
    THEN trim_end_matches_content(SubSeq(name, 1, Len(name) - 1))
    ELSE name

\* only the first occurrence is replaced
replace_first(name, from, to) ==
    [i \in 1..Len(name) |->
        IF name[i] = from /\ \A j \in 1..(i - 1) : name[j] # from
        THEN to ELSE name[i]]

\* the text of any uuid is replaced
replace_any_uuid(name, from, to) ==
    [i \in 1..Len(name) |-> IF name[i].k = "uuid" THEN to ELSE name[i]]

\* str::replace(from, to) where from and to are the texts of two uuids
replace(name, from, to) ==
    [i \in 1..Len(name) |-> IF name[i] = from THEN to ELSE name[i]]

(***************************************************************************)
(* documents.rs: the wire form of Parent.  A string is a sequence of       *)
(* pieces of text, "" the empty sequence.                                  *)
(***************************************************************************)
ParentOk(p) == [ok |-> TRUE, parent |-> p]
\* Err(serde::de::Error::custom(..))
ParentErr == [ok |-> FALSE, parent |-> Root]

to_rm_string(p) ==
    CASE p.tag = "Root" -> << >>
      [] p.tag = "Trash" -> << Lit("trash") >>
      [] p.tag = "Node" -> << to_string(p.id) >>

\* "trash" is handed to Uuid::parse_str like any other string
deserialize_rm_parent_uuid_only(buf) ==
    IF buf = << >> THEN ParentOk(Root)
    ELSE IF parse_str(buf).ok THEN ParentOk(Node(parse_str(buf).id))
         ELSE ParentErr

deserialize_rm_parent(buf) ==
    IF buf = << >> THEN ParentOk(Root)
    ELSE IF buf = << Lit("trash") >> THEN ParentOk(Trash)
    ELSE IF parse_str(buf).ok THEN ParentOk(Node(parse_str(buf).id))
         ELSE ParentErr

(***************************************************************************)
(* error.rs: Error                                                         *)
(***************************************************************************)
Error == {"InvalidZip", "EmptyResult", "RmCloudError", "UuidError",
          "ZipError", "IoError", "HttpError", "JsonError"}

Ok(v) == [ok |-> TRUE, val |-> v, err |-> ""]
Err(e) == [ok |-> FALSE, val |-> None, err |-> e]

(***************************************************************************)
(* client.rs: archives.  An archive is the sequence of its entries, in     *)
(* stored order; the bytes a ZipWriter produces are identified with the    *)
(* entries written.                                                        *)
(***************************************************************************)
Entry(name, data) == [name |-> name, data |-> data]

\* the entry is started and nothing is written to it
prepare_empty_zip_content_no_data(id) ==
    Ok(<< Entry(<<to_string(id), Lit(".content")>>, "") >>)

prepare_empty_zip_content(id) ==
    Ok(<< Entry(<<to_string(id), Lit(".content")>>, "{}") >>)

RECURSIVE id_from_zip_from(_, _)
id_from_zip_from(zip, i) ==
    IF i > Len(zip) THEN Err("InvalidZip")
    ELSE IF ends_with_content(zip[i].name)
         THEN LET uuid == parse_str(trim_end_matches_content(zip[i].name))
              IN  IF uuid.ok THEN Ok(uuid.id) ELSE Err("UuidError")
         ELSE id_from_zip_from(zip, i + 1)

id_from_zip(zip) == id_from_zip_from(zip, 1)

\* only the entries named after the current id are copied
replace_id_in_zip_named_only(new_id, zip) ==
    LET current_id == id_from_zip(zip)
        named(e) == \E j \in DOMAIN e.name : e.name[j] = to_string(current_id.val)
    IN  IF ~current_id.ok THEN Err(current_id.err)
        ELSE Ok([i \in 1..Len(SelectSeq(zip, named)) |->
                   Entry(replace(SelectSeq(zip, named)[i].name,
                                 to_string(current_id.val), to_string(new_id)),
                         SelectSeq(zip, named)[i].data)])

replace_id_in_zip(new_id, zip) ==
    LET current_id == id_from_zip(zip)
    IN  IF ~current_id.ok THEN Err(current_id.err)
        ELSE Ok([i \in 1..Len(zip) |->
                   Entry(replace(zip[i].name, to_string(current_id.val),
                                 to_string(new_id)),
                         zip[i].data)])

(***************************************************************************)
(* documents.rs: the records of the upload protocol                        *)
(***************************************************************************)
UploadRequest_new_notebook(id) ==
    [id |-> id, doc_type |-> "DocumentType", version |-> 1]

UploadRequest_new_folder(id) ==
    [id |-> id, doc_type |-> "CollectionType", version |-> 1]

\* UploadDocument, the draft client.rs keeps through an invocation and
\* sends as the update-status body: its definition is not among the
\* sources, so it follows the specification (section 4.3 and 6).
UploadDocument_new_notebook(id, visible_name, parent) ==
    [id |-> id, parent |-> parent, visible_name |-> visible_name,
     doc_type |-> "DocumentType", version |-> 1]

UploadDocument_new_folder(id, visible_name, parent) ==
    [id |-> id, parent |-> parent, visible_name |-> visible_name,
     doc_type |-> "CollectionType", version |-> 1]

UploadDocument_upload_request(doc) ==
    IF doc.doc_type = "DocumentType"
    THEN UploadRequest_new_notebook(doc.id)
    ELSE UploadRequest_new_folder(doc.id)

\* documents.rs UploadRequestResponse, of which after_upload reads id and
\* version; message and blob_url_put_expires are strings nothing reads
Versions == 0..MaxVersion
documents_UploadRequestResponse ==
    [id : Uuids, version : Versions, success : BOOLEAN,
     blob_url_put : {"https://blob/a", "https://blob/b"}]

\* chrono::Utc::now(): the instants a call may read
Instants == {"t1", "t2"}

\* the version is the one the upload request carried
after_upload_request_version(upload_request, upload_request_response, visible_name, parent, now) ==
    [id |-> upload_request_response.id, parent |-> parent,
     visible_name |-> visible_name, doc_type |-> upload_request.doc_type,
     version |-> upload_request.version, modified_client |-> now]

\* UpdateStatusRequest::after_upload; now is what chrono::Utc::now() reads
after_upload(upload_request, upload_request_response, visible_name, parent, now) ==
    [id |-> upload_request_response.id, parent |-> parent,
     visible_name |-> visible_name, doc_type |-> upload_request.doc_type,
     version |-> upload_request_response.version, modified_client |-> now]

NoUploadRequest == [id |-> None, doc_type |-> "", version |-> 0]
NoUpdateStatusRequest ==
    [id |-> None, parent |-> Root, visible_name |-> "", doc_type |-> "",
     version |-> 0, modified_client |-> ""]
NoAfter ==
    [upload_request |-> NoUploadRequest, called |-> FALSE,
     upload_request_response |->
         [id |-> None, version |-> 0, success |-> FALSE, blob_url_put |-> ""],
     visible_name |-> "", parent |-> Root, out |-> NoUpdateStatusRequest]

(***************************************************************************)
(* client.rs: urls                                                         *)
(***************************************************************************)
UPLOAD_PATH == "document-storage/json/2/upload/request"
UPDATE_STATUS_PATH == "document-storage/json/2/upload/update-status"

upload_url(state) == state.endpoint \o "/" \o UPLOAD_PATH
update_status_url(state) == state.endpoint \o "/" \o UPDATE_STATUS_PATH

(***************************************************************************)
(* The inputs of an invocation and the answers of the remote.              *)
(***************************************************************************)
VisibleNames == {"A", "B"}

\* an archive keyed with u: the primary entry and a sibling
KeyedArchive(u, form) ==
    << Entry(<<UuidText(u, form), Lit(".content")>>, "{}"),
       Entry(<<UuidText(u, form), Lit(".pagedata")>>, "p") >>

\* the archives a caller hands to upload_zip
Zips ==
    {KeyedArchive(u, "hyphenated") : u \in Uuids}
      \cup {KeyedArchive(1, "simple"),
            << Entry(<<Lit("x"), Lit(".pdf")>>, "p") >>,
            << Entry(<<Lit("x"), Lit(".content")>>, "{}") >>}

SeqUpTo(S, n) == UNION {[1..k -> S] : k \in 0..n}

\* signed urls the remote hands out
BlobUrls == {"https://blob/a", "https://blob/b"}

\* UploadRequestResponse as upload_zip and create_folder read it: version,
\* message and blob_url_put_expires are deserialized and never read
UploadRequestResponse ==
    [id : Uuids, success : BOOLEAN, blob_url_put : BlobUrls]

\* UpdateStatusResponse as read: version and message are never read
UpdateStatusResponse == [id : Uuids, success : BOOLEAN]

\* what comes back for a JSON request: the transport fails (send() or
\* text()), the body is not the JSON expected, or it is an array of records
JsonAnswers(Rec) ==
    {[t |-> "transport", records |-> <<>>], [t |-> "badjson", records |-> <<>>]}
      \cup {[t |-> "json", records |-> rs] : rs \in SeqUpTo(Rec, MaxResp)}

\* what comes back for the blob PUT: the transport fails, or a status
HttpStatuses == {200, 204, 403, 500}
BlobAnswers ==
    {[t |-> "transport", status |-> 0]}
      \cup {[t |-> "http", status |-> s] : s \in HttpStatuses}

(***************************************************************************)
(* client.rs: what upload_zip and create_folder write and send             *)
(***************************************************************************)
MsgNoUploadReqResponse ==
    "Did not receive a valid upload request response from rM Cloud"
MsgBadUploadReqResponse ==
    "Bad response from rM when creating upload request"
MsgBadUploadResponse == "Bad response from rM when upload folder"
MsgNotSingle ==
    "Expecte a singel response for our update_status request, got"
MsgUpdateFailed == "Failed to update status of folder"

\* a request of the http client: bearer token, content type, body
Request(kind, url, state, content_type, body) ==
    [kind |-> kind, url |-> url, bearer_auth |-> state.user_token,
     content_type |-> content_type, body |-> body]

\* .put(self.upload_url()).bearer_auth(..).json(upload_req)
upload_request_of(state, doc) ==
    Request("upload_request", upload_url(state), state, "application/json",
            << UploadDocument_upload_request(doc) >>)

\* the archive is PUT to the upload url of the Client, not to the url
\* signed for this invocation
blob_put_of_upload_url(state, response, zip_content) ==
    Request("blob_put", upload_url(state), state, "", zip_content)

\* .put(blob_url_put).bearer_auth(..).header("Content-Type", "").body(..)
blob_put_of(state, response, zip_content) ==
    Request("blob_put", response.blob_url_put, state, "", zip_content)

\* .put(self.update_status_url()).bearer_auth(..).json(&[upload_doc])
update_status_of(state, doc) ==
    Request("update_status", update_status_url(state), state,
            "application/json", << doc >>)

\* the invocation has not returned
NotReturned == [ok |-> FALSE, val |-> None, err |-> ""]
NoResponse == [id |-> None, success |-> FALSE, blob_url_put |-> ""]
NoStatus == [id |-> None, success |-> FALSE]
NoArgs == [fn |-> "", id |-> None, visible_name |-> "", parent |-> Root,
           zip |-> << >>]
NoDoc == [id |-> None, parent |-> Root, visible_name |-> "",
          doc_type |-> "", version |-> 0]

\* the arguments of a call
upload_zip_args(id, visible_name, parent, zip) ==
    [fn |-> "upload_zip", id |-> id, visible_name |-> visible_name,
     parent |-> parent, zip |-> zip]

create_folder_args(id, visible_name, parent) ==
    [fn |-> "create_folder", id |-> id, visible_name |-> visible_name,
     parent |-> parent, zip |-> << >>]

\* let mut upload_doc = UploadDocument::new_notebook(id, visible_name, parent)
\* let mut folder_doc = UploadDocument::new_folder(id, visible_name, parent)
draft_of(a) ==
    IF a.fn = "upload_zip"
    THEN UploadDocument_new_notebook(a.id, a.visible_name, a.parent)
    ELSE UploadDocument_new_folder(a.id, a.visible_name, a.parent)

\* the success flag is not looked at
upload_req_accepted_always(response) == TRUE

\* if !upload_req_response.success { return Err(..) }
upload_req_accepted(response) == response.success

\* the first record of the array is taken
pop_first(records) == records[1]

\* upload_req_responses.pop(), of an array that is not empty: Some(last)
pop(records) == records[Len(records)]

\* the draft keeps the id the caller proposed
confirmed_doc_unchanged(doc, response) == doc

\* upload_doc.id = upload_req_response.id
confirmed_doc(doc, response) == [doc EXCEPT !.id = response.id]

\* let zip_content = Self::replace_id_in_zip(id, zip)?
upload_zip_content(a, doc) == replace_id_in_zip(a.id, a.zip)

\* let zip_content = Self::prepare_empty_zip_content(folder_doc.id)?
create_folder_content(a, doc) == prepare_empty_zip_content(doc.id)

\* the archive of the invocation, for the function that runs
zip_content_of(a, doc) ==
    IF a.fn = "upload_zip" THEN upload_zip_content(a, doc)
    ELSE create_folder_content(a, doc)

\* the status is not looked at
upload_accepted_always(status) == TRUE

\* any 2xx status passes
upload_accepted_2xx(status) == status >= 200 /\ status < 300

\* if raw_upload_response.status() != 200 { return Err(..) }
upload_accepted(status) == status = 200

(***************************************************************************)
(* The three stretches of code between the awaits, as functions of what    *)
(* they read.  Each yields where the invocation stands afterwards (pc),    *)
(* the phase it is in, what it returned, the lines written to stderr and   *)
(* the requests sent.  upload_zip and create_folder run the same code but  *)
(* for the draft and the archive.                                          *)
(***************************************************************************)
\* return Err(e), or the ? operator
Returned(ph, e, lines, doc) ==
    [pc |-> "Failed", phase |-> ph, result |-> Err(e), lines |-> lines,
     upload_doc |-> doc, upload_req_response |-> NoResponse,
     requests |-> << >>]

\* from the answer to the upload request to the blob PUT
requested(state, a, doc, answer) ==
    IF answer.t = "transport"
    THEN Returned("Requesting", "HttpError", << >>, doc)
    ELSE IF answer.t = "badjson"
    THEN Returned("Requesting", "JsonError", << >>, doc)
    ELSE IF Len(answer.records) = 0
    THEN Returned("Requesting", "RmCloudError",
                  << MsgNoUploadReqResponse >>, doc)
    ELSE LET response == pop(answer.records)
         IN  IF ~upload_req_accepted(response)
             THEN Returned("Requesting", "RmCloudError",
                           << MsgBadUploadReqResponse >>, doc)
             ELSE LET confirmed == confirmed_doc(doc, response)
                      zip_content == zip_content_of(a, confirmed)
                  IN  IF ~zip_content.ok
                      THEN [Returned("Uploading", zip_content.err, << >>,
                                     confirmed)
                              EXCEPT !.upload_req_response = response]
                      ELSE [pc |-> "Uploading", phase |-> "Uploading",
                            result |-> NotReturned, lines |-> << >>,
                            upload_doc |-> confirmed,
                            upload_req_response |-> response,
                            requests |-> << blob_put_of(state, response,
                                                        zip_content.val) >>]

\* from the answer to the blob PUT to the update-status request
uploaded(state, doc, answer) ==
    IF answer.t = "transport"
    THEN [pc |-> "Failed", result |-> Err("HttpError"), lines |-> << >>,
          requests |-> << >>]
    ELSE IF ~upload_accepted(answer.status)
    THEN [pc |-> "Failed", result |-> Err("RmCloudError"),
          lines |-> << MsgBadUploadResponse >>, requests |-> << >>]
    ELSE [pc |-> "Confirming", result |-> NotReturned, lines |-> << >>,
          requests |-> << update_status_of(state, doc) >>]

\* from the answer to the update-status request to the end
confirmed(answer) ==
    IF answer.t = "transport"
    THEN [pc |-> "Failed", result |-> Err("HttpError"), lines |-> << >>,
          update_status |-> NoStatus]
    ELSE IF answer.t = "badjson"
    THEN [pc |-> "Failed", result |-> Err("JsonError"), lines |-> << >>,
          update_status |-> NoStatus]
    ELSE LET responses == answer.records
             lines == IF Len(responses) # 1 THEN << MsgNotSingle >>
                      ELSE << >>
         IN  IF Len(responses) = 0
             THEN \* update_status_responses.pop().unwrap() on an empty Vec
                  [pc |-> "Panicked", result |-> NotReturned,
                   lines |-> lines, update_status |-> NoStatus]
             ELSE LET update_status == responses[Len(responses)]
                  IN  IF ~update_status.success
                      THEN [pc |-> "Failed", result |-> Err("RmCloudError"),
                            lines |-> Append(lines, MsgUpdateFailed),
                            update_status |-> update_status]
                      ELSE [pc |-> "Done", result |-> Ok(update_status.id),
                            lines |-> lines,
                            update_status |-> update_status]

(***************************************************************************)
(* documents.rs: Documents.  Of a Document the index reads id,             *)
(* visible_name and parent.  by_id is a function from the ids it holds;    *)
(* by_id.values() iterates in an order Rust leaves unspecified, the same   *)
(* at every call as long as the map is not changed.                        *)
(***************************************************************************)
DocNames == {"A", "B", ""}
Document == [id : Uuids, visible_name : DocNames, parent : Parent]

\* std::path::Path, without ".." components: the components after the
\* root, and whether the path starts with "/".  Components are not empty.
Components == {"A", "B"}
Paths == [has_root : BOOLEAN, components : SeqUpTo(Components, MaxPath)]

\* Path::file_name().unwrap_or_default().to_str().unwrap_or_default()
file_name(path) ==
    IF Len(path.components) = 0 THEN ""
    ELSE path.components[Len(path.components)]

\* Path::parent() is None for "" and "/"; has_parent and parent_of are
\* its two halves
has_parent(path) == Len(path.components) > 0

\* the path itself, with its last component
parent_of_same(path) == path

parent_of(path) ==
    [path EXCEPT !.components = SubSeq(path.components, 1,
                                       Len(path.components) - 1)]

\* the parent of a document is never looked at
d_parent_none(d) == None

\* match d.parent { Parent::Node(p) => Some(p), _ => None }
d_parent(d) == IF d.parent.tag = "Node" THEN Some(d.parent.id) ELSE None

\* Documents::get_by_path: the id of the document returned, or None.
\* scan(i) is the for loop from the i-th document of the iteration on.
RECURSIVE get_by_path(_, _, _)
get_by_path(docs, ord, path) ==
    LET RECURSIVE scan(_)
        scan(i) ==
            IF i > Len(ord) THEN None
            ELSE LET d == docs[ord[i]]
                 IN  IF d.visible_name = file_name(path)
                     THEN IF ~has_parent(path) \/ d_parent(d) = None
                          THEN Some(d.id)
                          ELSE LET parent ==
                                     get_by_path(docs, ord, parent_of(path))
                               IN  IF parent = None THEN scan(i + 1)
                                   ELSE IF docs[parent].id = d_parent(d)
                                        THEN Some(d.id)
                                        ELSE scan(i + 1)
                     ELSE scan(i + 1)
    IN  scan(1)

\* the orders in which a map with these keys may iterate
Orders(keys) ==
    {o \in [1..Cardinality(keys) -> keys] :
        \A i, j \in 1..Cardinality(keys) : o[i] = o[j] => i = j}

\* the record already stored under the id is kept
insert_keep_first(docs, doc) ==
    [u \in DOMAIN docs \cup {doc.id} |->
        IF u \in DOMAIN docs THEN docs[u] ELSE doc]

\* documents.by_id.insert(doc.id, doc)
insert(docs, doc) ==
    [u \in DOMAIN docs \cup {doc.id} |-> IF u = doc.id THEN doc ELSE docs[u]]

NoQuery == [path |-> [has_root |-> FALSE, components |-> << >>],
            asked |-> FALSE, found |-> None]

\* Documents::get: Option<&Document>, << >> for None and << d >> for Some(d)
get(docs, uuid) == IF uuid \in DOMAIN docs THEN << docs[uuid] >> ELSE << >>

\* the documents of the variant of the parent, whatever the id in it
children_by_variant(docs, ord, parent) ==
    LET same(u) == docs[u].parent.tag = parent.tag
    IN  [i \in 1..Len(SelectSeq(ord, same)) |-> docs[SelectSeq(ord, same)[i]]]

\* Documents::children: the Vec pushed to while by_id.values() iterates in
\* the order ord
children(docs, ord, parent) ==
    LET same(u) == docs[u].parent = parent
    IN  [i \in 1..Len(SelectSeq(ord, same)) |-> docs[SelectSeq(ord, same)[i]]]

\* the records of the JSON sequence Documents is deserialized from
SeqDocuments == [id : Uuids, visible_name : Components, parent : Parent]

\* Documents::len
len(docs) == Cardinality(DOMAIN docs)

\* Documents::iter: by_id.values(), iterating in the order ord
iter(docs, ord) == [i \in 1..Len(ord) |-> docs[ord[i]]]

\* the record is handed out and stays in the map
remove_keeps(docs, uuid) == [docs |-> docs, out |-> get(docs, uuid)]

\* Documents::remove: the map afterwards and the Option<Document> returned
remove(docs, uuid) ==
    [docs |-> [u \in DOMAIN docs \ {uuid} |-> docs[u]],
     out |-> get(docs, uuid)]

\* the frames a get_by_path may stack up before the stack is exhausted
StackLimit == MaxPath + 2

\* the records of the indexes get_by_path is followed on, frame by frame:
\* names of path components, and parents Root or any id, in the index or
\* not (get_by_path reads Trash as it reads Root, see d_parent)
WalkDocuments ==
    [id : Uuids, visible_name : Components,
     parent : {Root} \cup {Node(u) : u \in Uuids}]

\* every map of such records keyed by their ids
keyed_by_id ==
    UNION {{docs \in [keys -> WalkDocuments] : \A u \in keys : docs[u].id = u} :
             keys \in SUBSET Uuids}

\* the paths it is followed for: the relative ones ("/a/b" is taken apart
\* as "a/b" is, down to a path without file_name and without parent)
WalkPaths == {path \in Paths : ~path.has_root}

NoWalk == [pc |-> "idle", path |-> [has_root |-> FALSE, components |-> << >>],
           stack |-> << >>, ret |-> << >>, result |-> None, deepest |-> 0]

(***************************************************************************)
(* client.rs: refresh_state, refresh_token, refresh_storage_endpoint       *)
(***************************************************************************)
USER_TOKEN_URL == "https://my.remarkable.com/token/json/2/user/new"
QUERY_STORAGE_URL == "https://service-manager-production-dot-remarkable-production.appspot.com/service/json/1/document-storage?environment=production&group=auth0|5a68dc51cb30df3877a1d7c4&apiVer=2"

\* .post(USER_TOKEN_URL).bearer_auth(&self.client_state.device_token)
\*     .body("")
token_request(state) ==
    [kind |-> "user_token", url |-> USER_TOKEN_URL,
     bearer_auth |-> state.device_token]

\* self.http_client.get(QUERY_STORAGE_URL)
storage_request(state) ==
    [kind |-> "storage_host", url |-> QUERY_STORAGE_URL, bearer_auth |-> ""]

\* what comes back for the token request: the transport fails (send() or
\* text()), or a body, whatever the status
TokenBodies == {"token1", "token2"}
TokenAnswers ==
    {[t |-> "transport", body |-> "", status |-> "", host |-> ""]}
      \cup {[t |-> "text", body |-> b, status |-> "", host |-> ""] :
              b \in TokenBodies}

\* what comes back for the storage query: the transport fails, the body
\* is not a StorageHost, or it is one
Statuses == {"OK", "Error"}
Hosts == {"host1", "host2"}
StorageAnswers ==
    {[t |-> k, body |-> "", status |-> "", host |-> ""] :
        k \in {"transport", "badjson"}}
      \cup {[t |-> "json", body |-> "", status |-> st, host |-> h] :
              st \in Statuses, h \in Hosts}

MsgBadStorageHost == "Bad response from rM"

\* refresh_token from the answer on
token_answered(state, answer) ==
    IF answer.t = "transport"
    THEN [state |-> state, result |-> Err("HttpError"), lines |-> << >>]
    ELSE [state |-> [state EXCEPT !.user_token = answer.body],
          result |-> Ok(None), lines |-> << >>]

\* the endpoint is set before the status is looked at
storage_answered_sets_first(state, answer) ==
    IF answer.t = "transport"
    THEN [state |-> state, result |-> Err("HttpError"), lines |-> << >>]
    ELSE IF answer.t = "badjson"
    THEN [state |-> state, result |-> Err("JsonError"), lines |-> << >>]
    ELSE [state |-> [state EXCEPT !.endpoint = "https://" \o answer.host],
          result |-> IF answer.status # "OK" THEN Err("RmCloudError")
                     ELSE Ok(None),
          lines |-> IF answer.status # "OK" THEN << MsgBadStorageHost >>
                    ELSE << >>]

\* refresh_storage_endpoint from the answer on
storage_answered(state, answer) ==
    IF answer.t = "transport"
    THEN [state |-> state, result |-> Err("HttpError"), lines |-> << >>]
    ELSE IF answer.t = "badjson"
    THEN [state |-> state, result |-> Err("JsonError"), lines |-> << >>]
    ELSE IF answer.status # "OK"
    THEN [state |-> state, result |-> Err("RmCloudError"),
          lines |-> << MsgBadStorageHost >>]
    ELSE [state |-> [state EXCEPT !.endpoint = "https://" \o answer.host],
          result |-> Ok(None), lines |-> << >>]

\* ClientState::new(): Default::default()
ClientState_new == [device_token |-> "", user_token |-> "", endpoint |-> ""]

NoRefresh == [fn |-> "", pc |-> "idle", sent |-> << >>, recv |-> << >>,
              stderr |-> << >>, result |-> NotReturned,
              entry |-> ClientState_new]

(***************************************************************************)
(* client.rs: get_document_by_id                                           *)
(***************************************************************************)
DOCUMENT_LIST_PATH == "document-storage/json/2/docs"

document_list_url(state) == state.endpoint \o "/" \o DOCUMENT_LIST_PATH

\* .get(&self.document_list_url()).bearer_auth(..)
\*     .query(&[("withBlob", "1"), ("doc", &id.to_string())])
document_by_id_request(state, id) ==
    [kind |-> "document_list", url |-> document_list_url(state),
     bearer_auth |-> state.user_token,
     query |-> << << Lit("withBlob"), Lit("1") >>,
                  << Lit("doc"), to_string(id) >> >>]

\* serde_json::from_str::<Documents>: visit_seq over the records
RECURSIVE from_seq(_)
from_seq(records) ==
    IF Len(records) = 0 THEN << >>
    ELSE insert(from_seq(SubSeq(records, 1, Len(records) - 1)),
                records[Len(records)])

NoDocument == [id |-> None, visible_name |-> "", parent |-> Root]
DocOk(d) == [ok |-> TRUE, val |-> d, err |-> ""]
DocErr(e) == [ok |-> FALSE, val |-> NoDocument, err |-> e]

\* some document of the answer is returned, whatever its id
any_or_empty(docs, id) ==
    IF DOMAIN docs = {} THEN DocErr("EmptyResult")
    ELSE DocOk(docs[CHOOSE u \in DOMAIN docs : TRUE])

\* match docs.remove(&id) { Some(d) => Ok(d), None => Err(EmptyResult) }
removed_or_empty(docs, id) ==
    LET d == remove(docs, id).out
    IN  IF d = << >> THEN DocErr("EmptyResult") ELSE DocOk(d[1])

\* get_document_by_id from the answer to its request on
document_by_id(id, answer) ==
    IF answer.t = "transport" THEN DocErr("HttpError")
    ELSE IF answer.t = "badjson" THEN DocErr("JsonError")
    ELSE removed_or_empty(from_seq(answer.records), id)

NoFetch == [pc |-> "idle", id |-> None, sent |-> << >>,
            answer |-> [t |-> "", records |-> << >>],
            out |-> DocErr("")]

(***************************************************************************)
(* lib.rs and main.rs: the index with parent: Option<Uuid>, and            *)
(* print_documents over it.                                                *)
(***************************************************************************)
lib_Document ==
    [id : Uuids, visible_name : Components, parent : {None} \cup Uuids]

\* by_id: every map of such records keyed by their ids
lib_keyed_by_id ==
    UNION {{docs \in [keys -> lib_Document] : \A u \in keys : docs[u].id = u} :
             keys \in SUBSET Uuids}

\* lib.rs Documents::get_by_path: the id of the document returned, or None
RECURSIVE lib_get_by_path(_, _, _)
lib_get_by_path(docs, ord, path) ==
    LET RECURSIVE scan(_)
        scan(i) ==
            IF i > Len(ord) THEN None
            ELSE LET d == docs[ord[i]]
                 IN  IF d.visible_name = file_name(path)
                     THEN IF ~has_parent(path) \/ d.parent = None
                          THEN Some(d.id)
                          ELSE LET parent ==
                                     lib_get_by_path(docs, ord,
                                                     parent_of(path))
                               IN  IF parent = None THEN scan(i + 1)
                                   ELSE IF docs[parent].id = d.parent
                                        THEN Some(d.id)
                                        ELSE scan(i + 1)
                     ELSE scan(i + 1)
    IN  scan(1)

\* lib.rs Documents::get_children
get_children(docs, ord, uuid) ==
    LET same(u) == docs[u].parent = uuid
    IN  [i \in 1..Len(SelectSeq(ord, same)) |-> docs[SelectSeq(ord, same)[i]]]

\* Option<&Path>: << >> for None, << path >> for Some(path)
OptionPaths == {<< >>} \cup {<< path >> : path \in Paths}

\* p.to_string_lossy() is "/"
is_root_path(path) == path.has_root /\ Len(path.components) = 0

\* path.map_or_else(|| PathBuf::from(name), |p| p.join(name)), for a name
\* that is one component
joined(path, name) ==
    IF path = << >> THEN [has_root |-> FALSE, components |-> << name >>]
    ELSE [path[1] EXCEPT !.components = Append(@, name)]

\* the frames a print_documents may stack up before the stack is exhausted
PrintLimit == NumUuid + 3

\* print_documents up to its for loop: doc_id, or that the path was not
\* found
resolved(docs, ord, path) ==
    IF path = << >> \/ is_root_path(path[1])
    THEN [found |-> TRUE, doc_id |-> None]
    ELSE LET d == lib_get_by_path(docs, ord, path[1])
         IN  IF d = None THEN [found |-> FALSE, doc_id |-> None]
             ELSE [found |-> TRUE, doc_id |-> Some(d)]

NoPrinting == [pc |-> "idle", recurse |-> FALSE, stack |-> << >>,
               stdout |-> << >>, deepest |-> 0]

NoLookup == [fn |-> "", uuid |-> None, parent |-> Root, found |-> << >>,
             len |-> 0]

\* the strings deserialize_rm_parent is handed: pieces of text that are
\* not a uuid, and the text of a uuid in the forms parse_str accepts
WirePieces ==
    {Lit("trash"), Lit("root"), Lit("x")}
      \cup {UuidText(u, form) : u \in Uuids, form \in UuidForms}
WireStrings == SeqUpTo(WirePieces, MaxText)

NotEncoded == [done |-> FALSE, parent |-> Root]
NotDecoded == [called |-> FALSE, out |-> ParentErr]

(***************************************************************************)
(* client.rs: the archives id_from_zip and replace_id_in_zip are handed.   *)
(***************************************************************************)
\* entry names: <uuid>.content in the forms parse_str accepts, a name that
\* holds the text of a uuid twice, <uuid>.content.content, and names
\* without a uuid
EntryNames ==
    {<<UuidText(u, form), Lit(".content")>> : u \in Uuids, form \in UuidForms}
      \cup {<<to_string(u), Lit("/"), to_string(u), Lit(".rm")>> : u \in Uuids}
      \cup {<<to_string(u), Lit(".content"), Lit(".content")>> : u \in Uuids}
      \cup {<<Lit("x"), Lit(".content")>>, <<Lit("x"), Lit(".pdf")>>}

\* the raw data of an entry
Payloads == {"{}", "p"}

Archives ==
    SeqUpTo({Entry(name, data) : name \in EntryNames, data \in Payloads},
            MaxEntries)

NotWritten == [written |-> FALSE, new_id |-> None, zip |-> << >>]
NoZipCall == [fn |-> "", new_id |-> None, out |-> NotReturned]

(***************************************************************************)
(* State.                                                                  *)
(***************************************************************************)
VARIABLES
    client_state,   \* Client.client_state
    pc,             \* where the invocation stands
    phase,          \* the phase of the protocol entered last
    args,           \* the arguments of the invocation
    upload_doc,     \* upload_doc / folder_doc, the draft
    upload_req_response, \* the record popped from the upload-request answer
    update_status,  \* the record popped from the update-status answer
    sent,           \* the requests sent by the invocation, in order
    recv,           \* the answers received by the invocation, in order
    stderr,         \* the lines the invocation wrote with eprintln!
    result,         \* what the invocation returned
    other,          \* a second invocation on the same Client: its locals
    by_id,          \* Documents.by_id
    order,          \* the order in which by_id.values() iterated
    query,          \* the last get_by_path: its path and what it returned
    input,          \* the JSON sequence Documents is deserialized from
    seq_pos,        \* how many of its elements next_element has yielded
    lookup,         \* the last get or children and what it returned
    archive,        \* the archive a zip::ZipArchive is opened on
    zip_from,       \* the replace_id_in_zip call that wrote that archive
    zip_call,       \* the last call on the archive and what it returned
    wire,           \* the string a Parent is written to or read from
    encoded,        \* the Parent to_rm_string wrote to the string
    decoded,        \* what deserialize_rm_parent returned for the string
    after,          \* an UpdateStatusRequest::after_upload and its arguments
    walk,           \* a get_by_path in progress: the frames of its calls
    printing,       \* a print_documents in progress: frames and lines
    fetch,          \* a get_document_by_id: its request, answer and result
    refresh         \* a refresh_state, refresh_token or
                    \* refresh_storage_endpoint: requests, answers, result

LocalVars == <<pc, phase, args, upload_doc, upload_req_response,
               update_status, sent, recv, stderr, result>>
ClientVars == <<client_state, LocalVars>>
IndexVars == <<by_id, order, query>>
SeqVars == <<input, seq_pos, lookup>>
ZipVars == <<archive, zip_from, zip_call>>
WireVars == <<wire, encoded, decoded>>
OtherVars == <<other>>
CallVars == <<after, walk, printing, fetch, refresh>>
vars == <<ClientVars, OtherVars, IndexVars, SeqVars, ZipVars, WireVars,
          CallVars>>

\* what an invocation on the Client leaves alone, and what the index does
NotClientVars == <<OtherVars, IndexVars, SeqVars, ZipVars, WireVars, CallVars>>
NotIndexVars == <<ClientVars, OtherVars, SeqVars, ZipVars, WireVars, CallVars>>
NotZipVars == <<ClientVars, OtherVars, IndexVars, SeqVars, WireVars, CallVars>>
NotWireVars == <<ClientVars, OtherVars, IndexVars, SeqVars, ZipVars, CallVars>>
NotCallVars == <<ClientVars, OtherVars, IndexVars, SeqVars, ZipVars, WireVars>>
\* what a refresh of the client state leaves alone, with the other calls
NotRefreshVars == <<LocalVars, OtherVars, IndexVars, SeqVars, ZipVars,
                    WireVars>>
\* what a get_by_path or a print_documents that runs frame by frame leaves
\* alone, with the other calls
NotWalkVars == <<ClientVars, OtherVars, SeqVars, ZipVars, WireVars>>
\* what no call on Documents touches, and what no invocation does
NotDocumentsVars == <<ClientVars, OtherVars, ZipVars, WireVars, CallVars>>
NotInvocationVars == <<IndexVars, SeqVars, ZipVars, WireVars, CallVars>>

\* an answer as recv keeps it: what came back, for an array its length and
\* the success flag of its last record, for the blob PUT the status
last_success(records) ==
    IF Len(records) = 0 THEN FALSE ELSE records[Len(records)].success

ReceivedJson(answer) ==
    [t |-> answer.t, len |-> Len(answer.records),
     success |-> last_success(answer.records), status |-> 0]

ReceivedHttp(answer) ==
    [t |-> answer.t, len |-> 0, success |-> FALSE, status |-> answer.status]

\* the locals of an invocation that has not been called
NotCalled ==
    [pc |-> "Idle", phase |-> "None", args |-> NoArgs, upload_doc |-> NoDoc,
     upload_req_response |-> NoResponse, update_status |-> NoStatus,
     sent |-> << >>, recv |-> << >>, stderr |-> << >>, result |-> NotReturned]

LoadedState == [device_token |-> "device", user_token |-> "user",
                endpoint |-> "https://host"]

(***************************************************************************)
(* Actions of an invocation: one per stretch of code between two awaits.   *)
(***************************************************************************)
InitClient ==
    /\ client_state = LoadedState
    /\ pc = "Idle"
    /\ phase = "None"
    /\ args = NoArgs
    /\ upload_doc = NoDoc
    /\ upload_req_response = NoResponse
    /\ update_status = NoStatus
    /\ sent = << >>
    /\ recv = << >>
    /\ stderr = << >>
    /\ result = NotReturned
    /\ other = NotCalled

\* Documents::default()
InitIndex ==
    /\ by_id = << >>
    /\ order = << >>
    /\ query = NoQuery

\* no archive is opened
InitNoZip ==
    /\ archive = << >>
    /\ zip_from = NotWritten
    /\ zip_call = NoZipCall

\* no sequence is being deserialized
InitNoSeq ==
    /\ input = << >>
    /\ seq_pos = 0
    /\ lookup = NoLookup

\* no Parent is written or read
InitNoWire ==
    /\ wire = << >>
    /\ encoded = NotEncoded
    /\ decoded = NotDecoded

\* no other call was made
InitNoCall ==
    /\ after = NoAfter
    /\ walk = NoWalk
    /\ printing = NoPrinting
    /\ fetch = NoFetch
    /\ refresh = NoRefresh

Init ==
    /\ InitClient /\ InitIndex /\ InitNoSeq /\ InitNoZip /\ InitNoWire
    /\ InitNoCall

\* the call, up to the first await
Call(a) ==
    /\ pc = "Idle"
    /\ args' = a
    /\ upload_doc' = draft_of(a)
    /\ sent' = << upload_request_of(client_state, draft_of(a)) >>
    /\ pc' = "Requesting"
    /\ phase' = "Requesting"
    /\ UNCHANGED <<client_state, upload_req_response, update_status, recv,
                   stderr, result>>
    /\ UNCHANGED NotClientVars

upload_zip(id, visible_name, parent, zip) ==
    Call(upload_zip_args(id, visible_name, parent, zip))

create_folder(id, visible_name, parent) ==
    Call(create_folder_args(id, visible_name, parent))

Requested(answer) ==
    /\ pc = "Requesting"
    /\ LET o == requested(client_state, args, upload_doc, answer)
       IN  /\ pc' = o.pc
           /\ phase' = o.phase
           /\ result' = o.result
           /\ stderr' = stderr \o o.lines
           /\ upload_doc' = o.upload_doc
           /\ upload_req_response' = o.upload_req_response
           /\ sent' = sent \o o.requests
    /\ recv' = Append(recv, ReceivedJson(answer))
    /\ UNCHANGED <<client_state, args, update_status>>
    /\ UNCHANGED NotClientVars

upload_zip_requested(answer) ==
    /\ args.fn = "upload_zip"
    /\ Requested(answer)

create_folder_requested(answer) ==
    /\ args.fn = "create_folder"
    /\ Requested(answer)

Uploaded(answer) ==
    /\ pc = "Uploading"
    /\ LET o == uploaded(client_state, upload_doc, answer)
       IN  /\ pc' = o.pc
           /\ phase' = IF o.pc = "Confirming" THEN "Confirming" ELSE phase
           /\ result' = o.result
           /\ stderr' = stderr \o o.lines
           /\ sent' = sent \o o.requests
    /\ recv' = Append(recv, ReceivedHttp(answer))
    /\ UNCHANGED <<client_state, args, upload_doc, upload_req_response,
                   update_status>>
    /\ UNCHANGED NotClientVars

Confirmed(answer) ==
    /\ pc = "Confirming"
    /\ LET o == confirmed(answer)
       IN  /\ pc' = o.pc
           /\ result' = o.result
           /\ stderr' = stderr \o o.lines
           /\ update_status' = o.update_status
    /\ recv' = Append(recv, ReceivedJson(answer))
    /\ UNCHANGED <<client_state, phase, args, upload_doc,
                   upload_req_response, sent>>
    /\ UNCHANGED NotClientVars

Next ==
    \/ \E id \in Uuids, visible_name \in VisibleNames, parent \in Parent,
          zip \in Zips : upload_zip(id, visible_name, parent, zip)
    \/ \E id \in Uuids, visible_name \in VisibleNames, parent \in Parent :
          create_folder(id, visible_name, parent)
    \/ \E answer \in JsonAnswers(UploadRequestResponse) :
          upload_zip_requested(answer)
    \/ \E answer \in JsonAnswers(UploadRequestResponse) :
          create_folder_requested(answer)
    \/ \E answer \in BlobAnswers : Uploaded(answer)
    \/ \E answer \in JsonAnswers(UpdateStatusResponse) : Confirmed(answer)

Spec == Init /\ [][Next]_vars

(***************************************************************************)
(* Two invocations on one Client.  upload_zip and create_folder take       *)
(* &self: the futures of two calls are polled in any order, each running   *)
(* from one await to the next.  What an invocation keeps between awaits    *)
(* are the locals of its future; the Client is read, never written.  The   *)
(* second invocation runs the same three stretches of code on its locals.  *)
(***************************************************************************)
OtherCall(a) ==
    /\ other.pc = "Idle"
    /\ other' = [other EXCEPT
                    !.args = a,
                    !.upload_doc = draft_of(a),
                    !.sent = << upload_request_of(client_state, draft_of(a)) >>,
                    !.pc = "Requesting",
                    !.phase = "Requesting"]
    /\ UNCHANGED ClientVars
    /\ UNCHANGED NotInvocationVars

OtherRequested(answer) ==
    /\ other.pc = "Requesting"
    /\ LET o == requested(client_state, other.args, other.upload_doc, answer)
       IN  other' = [other EXCEPT
                       !.pc = o.pc,
                       !.phase = o.phase,
                       !.result = o.result,
                       !.stderr = other.stderr \o o.lines,
                       !.upload_doc = o.upload_doc,
                       !.upload_req_response = o.upload_req_response,
                       !.sent = other.sent \o o.requests,
                       !.recv = Append(other.recv, ReceivedJson(answer))]
    /\ UNCHANGED ClientVars
    /\ UNCHANGED NotInvocationVars

OtherUploaded(answer) ==
    /\ other.pc = "Uploading"
    /\ LET o == uploaded(client_state, other.upload_doc, answer)
       IN  other' = [other EXCEPT
                       !.pc = o.pc,
                       !.phase = IF o.pc = "Confirming" THEN "Confirming"
                                 ELSE other.phase,
                       !.result = o.result,
                       !.stderr = other.stderr \o o.lines,
                       !.sent = other.sent \o o.requests,
                       !.recv = Append(other.recv, ReceivedHttp(answer))]
    /\ UNCHANGED ClientVars
    /\ UNCHANGED NotInvocationVars

OtherConfirmed(answer) ==
    /\ other.pc = "Confirming"
    /\ LET o == confirmed(answer)
       IN  other' = [other EXCEPT
                       !.pc = o.pc,
                       !.result = o.result,
                       !.stderr = other.stderr \o o.lines,
                       !.update_status = o.update_status,
                       !.recv = Append(other.recv, ReceivedJson(answer))]
    /\ UNCHANGED ClientVars
    /\ UNCHANGED NotInvocationVars

\* the calls and the answers of the runs of two invocations: a notebook
\* or a folder at the root, one record per JSON answer
PairArgs ==
    {upload_zip_args(id, "A", Root, KeyedArchive(id, "hyphenated")) :
        id \in Uuids}
      \cup {create_folder_args(id, "A", Root) : id \in Uuids}

PairJsonAnswers(Rec) ==
    {[t |-> "transport", records |-> << >>]}
      \cup {[t |-> "json", records |-> << r >>] : r \in Rec}

PairBlobAnswers == {[t |-> "http", status |-> s] : s \in {200, 500}}

NextPair ==
    \/ \E a \in PairArgs : Call(a)
    \/ \E answer \in PairJsonAnswers(UploadRequestResponse) :
          Requested(answer)
    \/ \E answer \in PairBlobAnswers : Uploaded(answer)
    \/ \E answer \in PairJsonAnswers(UpdateStatusResponse) :
          Confirmed(answer)
    \/ \E a \in PairArgs : OtherCall(a)
    \/ \E answer \in PairJsonAnswers(UploadRequestResponse) :
          OtherRequested(answer)
    \/ \E answer \in PairBlobAnswers : OtherUploaded(answer)
    \/ \E answer \in PairJsonAnswers(UpdateStatusResponse) :
          OtherConfirmed(answer)

SpecPair == Init /\ [][NextPair]_vars

(***************************************************************************)
(* The index: built as DocumentsVisitor::visit_seq builds it, one          *)
(* next_element at a time from Documents::default(), and queried.          *)
(***************************************************************************)
\* while let Some(doc) = visitor.next_element()? { by_id.insert(doc.id, doc) }
\* The index is queried after it is built.  When a given sequence is
\* deserialized, the element is one more of that sequence.
visit_seq(doc) ==
    /\ ~query.asked
    /\ lookup.fn = ""
    /\ by_id' = insert(by_id, doc)
    /\ IF seq_pos < Len(input)
       THEN seq_pos' = seq_pos + 1
       ELSE UNCHANGED seq_pos
    /\ UNCHANGED <<order, query, input, lookup>>
    /\ UNCHANGED NotDocumentsVars

\* docs.get_by_path(path), with by_id.values() iterating in the order ord
\* in this call and in the calls it makes
GetByPath(path, ord) ==
    /\ ~query.asked
    /\ order' = ord
    /\ query' = [path |-> path, asked |-> TRUE,
                 found |-> get_by_path(by_id, ord, path)]
    /\ UNCHANGED by_id
    /\ UNCHANGED NotIndexVars

NextIndex ==
    \/ \E doc \in Document : visit_seq(doc)
    \/ \E path \in Paths, ord \in Orders(DOMAIN by_id) : GetByPath(path, ord)

SpecIndex == Init /\ [][NextIndex]_vars

(***************************************************************************)
(* The index of a small tree: A at the root, B in A, C in B, and records   *)
(* that carry the names B and C under other parents.                       *)
(***************************************************************************)
TreeA == [id |-> 1, visible_name |-> "A", parent |-> Root]
TreeB == [id |-> 2, visible_name |-> "B", parent |-> Node(1)]
TreeC == [id |-> 3, visible_name |-> "C", parent |-> Node(2)]

TreeDocuments ==
    {TreeA, TreeB, TreeC}
      \cup {[id |-> i, visible_name |-> n, parent |-> Node(p)] :
              i \in {2, 3}, n \in {"B", "C"}, p \in {1, 2}}

TreeComponents == {"A", "B", "C", "X"}
TreePaths ==
    [has_root : BOOLEAN, components : SeqUpTo(TreeComponents, MaxPath + 1)]

NextTree ==
    \/ \E doc \in TreeDocuments : visit_seq(doc)
    \/ \E path \in TreePaths, ord \in Orders(DOMAIN by_id) :
          GetByPath(path, ord)

SpecTree == Init /\ [][NextTree]_vars

(***************************************************************************)
(* The index deserialized from a given JSON sequence, then looked up.      *)
(***************************************************************************)
InitSeq ==
    /\ InitClient /\ InitIndex /\ InitNoZip /\ InitNoWire /\ InitNoCall
    /\ input \in SeqUpTo(SeqDocuments, MaxResp)
    /\ seq_pos = 0
    /\ lookup = NoLookup

\* one turn of the while loop of visit_seq: next_element yields the next
\* element of the sequence
next_element ==
    /\ seq_pos < Len(input)
    /\ visit_seq(input[seq_pos + 1])

\* visit_seq returned Ok(documents)
Deserialized == seq_pos = Len(input)

\* documents.get(&uuid)
Get(uuid) ==
    /\ Deserialized
    /\ ~query.asked
    /\ lookup.fn \in {"", "remove"}
    /\ lookup' = [fn |-> "get", uuid |-> uuid, parent |-> Root,
                  found |-> get(by_id, uuid), len |-> 0]
    /\ UNCHANGED <<by_id, order, query, input, seq_pos>>
    /\ UNCHANGED NotDocumentsVars

\* documents.children(parent), with by_id.values() iterating in the order
\* ord
Children(parent, ord) ==
    /\ Deserialized
    /\ ~query.asked
    /\ lookup.fn = ""
    /\ order' = ord
    /\ lookup' = [fn |-> "children", uuid |-> None, parent |-> parent,
                  found |-> children(by_id, ord, parent), len |-> 0]
    /\ UNCHANGED <<by_id, query, input, seq_pos>>
    /\ UNCHANGED NotDocumentsVars

NextSeq ==
    \/ next_element
    \/ \E uuid \in Uuids : Get(uuid)
    \/ \E parent \in Parent, ord \in Orders(DOMAIN by_id) :
          Children(parent, ord)

SpecSeq == InitSeq /\ [][NextSeq]_vars

(***************************************************************************)
(* The index built, then read and emptied: remove takes records out, and   *)
(* get, children, get_by_path, len and iter read.                          *)
(***************************************************************************)
\* documents.remove(&uuid)
Remove(uuid) ==
    /\ Deserialized
    /\ ~query.asked
    /\ lookup.fn \in {"", "remove"}
    /\ by_id' = remove(by_id, uuid).docs
    /\ lookup' = [fn |-> "remove", uuid |-> uuid, parent |-> Root,
                  found |-> remove(by_id, uuid).out, len |-> 0]
    /\ UNCHANGED <<order, query, input, seq_pos>>
    /\ UNCHANGED NotDocumentsVars

\* documents.len()
Length ==
    /\ Deserialized
    /\ ~query.asked
    /\ lookup.fn = ""
    /\ lookup' = [fn |-> "len", uuid |-> None, parent |-> Root,
                  found |-> << >>, len |-> len(by_id)]
    /\ UNCHANGED <<by_id, order, query, input, seq_pos>>
    /\ UNCHANGED NotDocumentsVars

\* documents.iter(), with by_id.values() iterating in the order ord
Iterate(ord) ==
    /\ Deserialized
    /\ ~query.asked
    /\ lookup.fn = ""
    /\ order' = ord
    /\ lookup' = [fn |-> "iter", uuid |-> None, parent |-> Root,
                  found |-> iter(by_id, ord), len |-> 0]
    /\ UNCHANGED <<by_id, query, input, seq_pos>>
    /\ UNCHANGED NotDocumentsVars

\* get_by_path of an index nothing else was asked of
GetByPathFirst(path, ord) ==
    /\ lookup.fn = ""
    /\ GetByPath(path, ord)

NextRemove ==
    \/ \E doc \in SeqDocuments : visit_seq(doc)
    \/ \E uuid \in Uuids : Remove(uuid)
    \/ \E uuid \in Uuids : Get(uuid)
    \/ \E parent \in Parent, ord \in Orders(DOMAIN by_id) :
          Children(parent, ord)
    \/ Length
    \/ \E ord \in Orders(DOMAIN by_id) : Iterate(ord)
    \/ \E path \in Paths, ord \in Orders(DOMAIN by_id) :
          GetByPathFirst(path, ord)

SpecRemove == Init /\ [][NextRemove]_vars

(***************************************************************************)
(* Archives: an archive is opened, and id_from_zip or replace_id_in_zip    *)
(* is called on it; the archive replace_id_in_zip wrote is opened in turn. *)
(***************************************************************************)
InitZip ==
    /\ InitClient /\ InitIndex /\ InitNoSeq /\ InitNoWire /\ InitNoCall
    /\ archive \in Archives
    /\ zip_from = NotWritten
    /\ zip_call = NoZipCall

\* Self::id_from_zip(zip)
IdFromZip ==
    /\ zip_call.fn = ""
    /\ zip_call' = [fn |-> "id_from_zip", new_id |-> None,
                    out |-> id_from_zip(archive)]
    /\ UNCHANGED <<archive, zip_from>>
    /\ UNCHANGED NotZipVars

\* Self::replace_id_in_zip(new_id, zip)
ReplaceIdInZip(new_id) ==
    /\ zip_call.fn = ""
    /\ ~zip_from.written
    /\ zip_call' = [fn |-> "replace_id_in_zip", new_id |-> new_id,
                    out |-> replace_id_in_zip(new_id, archive)]
    /\ UNCHANGED <<archive, zip_from>>
    /\ UNCHANGED NotZipVars

\* Self::prepare_empty_zip_content(id)
PrepareEmptyZipContent(id) ==
    /\ zip_call.fn = ""
    /\ ~zip_from.written
    /\ zip_call' = [fn |-> "prepare_empty_zip_content", new_id |-> id,
                    out |-> prepare_empty_zip_content(id)]
    /\ UNCHANGED <<archive, zip_from>>
    /\ UNCHANGED NotZipVars

\* zip::ZipArchive::new over the bytes replace_id_in_zip or
\* prepare_empty_zip_content returned
Reopen ==
    /\ zip_call.fn \in {"replace_id_in_zip", "prepare_empty_zip_content"}
    /\ zip_call.out.ok
    /\ archive' = zip_call.out.val
    /\ zip_from' = [written |-> TRUE, new_id |-> zip_call.new_id,
                    zip |-> archive]
    /\ zip_call' = NoZipCall
    /\ UNCHANGED NotZipVars

NextZip ==
    \/ IdFromZip
    \/ \E new_id \in Uuids : ReplaceIdInZip(new_id)
    \/ \E id \in Uuids : PrepareEmptyZipContent(id)
    \/ Reopen

SpecZip == InitZip /\ [][NextZip]_vars

(***************************************************************************)
(* The wire form of Parent: a string is received and deserialized, or a    *)
(* Parent is serialized and the string deserialized.                       *)
(***************************************************************************)
InitWire ==
    /\ InitClient /\ InitIndex /\ InitNoSeq /\ InitNoZip /\ InitNoCall
    /\ wire \in WireStrings
    /\ encoded = NotEncoded
    /\ decoded = NotDecoded

\* se.serialize_str(&self.to_rm_string())
serialize_rm_parent(p) ==
    /\ ~encoded.done
    /\ ~decoded.called
    /\ wire' = to_rm_string(p)
    /\ encoded' = [done |-> TRUE, parent |-> p]
    /\ UNCHANGED decoded
    /\ UNCHANGED NotWireVars

\* Parent::deserialize_rm_parent(de), String::deserialize(de) being the
\* string
DeserializeRmParent ==
    /\ ~decoded.called
    /\ decoded' = [called |-> TRUE, out |-> deserialize_rm_parent(wire)]
    /\ UNCHANGED <<wire, encoded>>
    /\ UNCHANGED NotWireVars

NextWire ==
    \/ \E p \in Parent : serialize_rm_parent(p)
    \/ DeserializeRmParent

SpecWire == InitWire /\ [][NextWire]_vars

(***************************************************************************)
(* UpdateStatusRequest::after_upload, applied to an upload request made by *)
(* one of the two constructors and to a response of the remote.            *)
(***************************************************************************)
NewUploadRequest(upload_request) ==
    /\ after.upload_request = NoUploadRequest
    /\ after' = [after EXCEPT !.upload_request = upload_request]
    /\ UNCHANGED <<walk, printing, fetch, refresh>>
    /\ UNCHANGED NotCallVars

\* UploadRequest::new_notebook(id)
NewNotebook(id) == NewUploadRequest(UploadRequest_new_notebook(id))

\* UploadRequest::new_folder(id)
NewFolder(id) == NewUploadRequest(UploadRequest_new_folder(id))

\* UpdateStatusRequest::after_upload(upload_request,
\*     upload_request_response, visible_name, parent)
AfterUpload(upload_request_response, visible_name, parent, now) ==
    /\ after.upload_request # NoUploadRequest
    /\ ~after.called
    /\ after' = [after EXCEPT
                    !.called = TRUE,
                    !.upload_request_response = upload_request_response,
                    !.visible_name = visible_name,
                    !.parent = parent,
                    !.out = after_upload(after.upload_request,
                                         upload_request_response,
                                         visible_name, parent, now)]
    /\ UNCHANGED <<walk, printing, fetch, refresh>>
    /\ UNCHANGED NotCallVars

NextAfter ==
    \/ \E id \in Uuids : NewNotebook(id)
    \/ \E id \in Uuids : NewFolder(id)
    \/ \E r \in documents_UploadRequestResponse, n \in VisibleNames,
          p \in Parent, now \in Instants : AfterUpload(r, n, p, now)

SpecAfter == Init /\ [][NextAfter]_vars

(***************************************************************************)
(* Documents::get_by_path as it runs: one frame per call that has not      *)
(* returned, each with its path and the position of its for loop in        *)
(* by_id.values().  A call that would need more than StackLimit frames     *)
(* exhausts the stack.                                                     *)
(***************************************************************************)
InitWalk ==
    /\ InitClient /\ InitNoSeq /\ InitNoZip /\ InitNoWire /\ InitNoCall
    /\ by_id \in keyed_by_id
    /\ order = << >>
    /\ query = NoQuery

Frame(path) == [path |-> path, i |-> 1]

\* docs.get_by_path(path), with by_id.values() iterating in the order ord
WalkCall(path, ord) ==
    /\ walk.pc = "idle"
    /\ order' = ord
    /\ walk' = [walk EXCEPT !.pc = "running", !.path = path,
                            !.stack = << Frame(path) >>, !.deepest = 1]
    /\ UNCHANGED <<by_id, query, after, printing, fetch, refresh>>
    /\ UNCHANGED NotWalkVars

\* the topmost call returns v: to its caller, or to the caller of the
\* first call
returned_from(w, v) ==
    IF Len(w.stack) = 1
    THEN [w EXCEPT !.pc = "returned", !.stack = << >>, !.ret = << >>,
                   !.result = v]
    ELSE [w EXCEPT !.stack = SubSeq(w.stack, 1, Len(w.stack) - 1),
                   !.ret = << v >>]

\* the for loop of the topmost call goes on to the next document
continued(w) ==
    [w EXCEPT !.stack[Len(w.stack)].i = @ + 1, !.ret = << >>]

\* self.get_by_path(parent_path) is called from the topmost call
called_from(w) ==
    IF Len(w.stack) >= StackLimit
    THEN [w EXCEPT !.pc = "overflow"]
    ELSE [w EXCEPT !.stack =
              Append(@, Frame(parent_of(w.stack[Len(w.stack)].path))),
                   !.deepest = IF Len(w.stack) + 1 > @
                               THEN Len(w.stack) + 1 ELSE @]

\* one turn of the for loop of the topmost call, up to the recursive call,
\* a return or the next turn
Examine ==
    /\ walk.pc = "running"
    /\ walk.ret = << >>
    /\ LET top == walk.stack[Len(walk.stack)]
       IN  IF top.i > Len(order)
           THEN walk' = returned_from(walk, None)
           ELSE LET d == by_id[order[top.i]]
                IN  IF d.visible_name # file_name(top.path)
                    THEN walk' = continued(walk)
                    ELSE IF ~has_parent(top.path) \/ d_parent(d) = None
                         THEN walk' = returned_from(walk, Some(d.id))
                         ELSE walk' = called_from(walk)
    /\ UNCHANGED <<by_id, order, query, after, printing, fetch, refresh>>
    /\ UNCHANGED NotWalkVars

\* the topmost call gets the answer of the call it made for the parent
\* path: match self.get_by_path(parent_path) { ... }
Receive ==
    /\ walk.pc = "running"
    /\ walk.ret # << >>
    /\ LET top == walk.stack[Len(walk.stack)]
           d == by_id[order[top.i]]
           parent == walk.ret[1]
       IN  IF parent = None THEN walk' = continued(walk)
           ELSE IF by_id[parent].id = d_parent(d)
                THEN walk' = returned_from([walk EXCEPT !.ret = << >>],
                                           Some(d.id))
                ELSE walk' = continued(walk)
    /\ UNCHANGED <<by_id, order, query, after, printing, fetch, refresh>>
    /\ UNCHANGED NotWalkVars

Run == Examine \/ Receive

NextWalk ==
    \/ \E path \in WalkPaths, ord \in Orders(DOMAIN by_id) :
          WalkCall(path, ord)
    \/ Examine
    \/ Receive

\* a call that has been made keeps running: nothing else runs on its
\* thread
SpecWalk == InitWalk /\ [][NextWalk]_vars /\ WF_vars(Run)

(***************************************************************************)
(* main.rs print_documents as it runs: one frame per call that has not     *)
(* returned, with its path, the doc_id it resolved, the children it lists  *)
(* and the position of its for loop.  for_doc is the document of the       *)
(* caller's loop the call was made for.                                    *)
(***************************************************************************)
InitPrint ==
    /\ InitClient /\ InitNoSeq /\ InitNoZip /\ InitNoWire /\ InitNoCall
    /\ by_id \in lib_keyed_by_id
    /\ order = << >>
    /\ query = NoQuery

\* a call of print_documents(docs, path, ..) made for the document for_doc
\* (None for the first call), up to its for loop
entered(w, docs, ord, path, for_doc) ==
    LET r == resolved(docs, ord, path)
    IN  IF ~r.found
        THEN [w EXCEPT !.stdout = Append(@, [couldnt_find |-> path[1]]),
                       !.pc = IF Len(w.stack) = 0 THEN "returned" ELSE @]
        ELSE IF Len(w.stack) >= PrintLimit
        THEN [w EXCEPT !.pc = "overflow"]
        ELSE [w EXCEPT
                !.pc = "running",
                !.stack = Append(@, [path |-> path, doc_id |-> r.doc_id,
                                     for_doc |-> for_doc,
                                     children |->
                                         get_children(docs, ord, r.doc_id),
                                     k |-> 1]),
                !.deepest = IF Len(w.stack) + 1 > @
                            THEN Len(w.stack) + 1 ELSE @]

\* print_documents(&documents, &path, recurse, "")
print_documents(path, recurse, ord) ==
    /\ printing.pc = "idle"
    /\ order' = ord
    /\ printing' = entered([printing EXCEPT !.recurse = recurse], by_id, ord,
                           path, None)
    /\ UNCHANGED <<by_id, query, after, walk, fetch, refresh>>
    /\ UNCHANGED NotWalkVars

\* one turn of the for loop of the topmost call: the line printed and,
\* with recurse, the call made for the document; or the end of the loop
Turn ==
    /\ printing.pc = "running"
    /\ LET depth == Len(printing.stack)
           top == printing.stack[depth]
       IN  IF top.k > Len(top.children)
           THEN printing' =
                  [printing EXCEPT
                     !.stack = SubSeq(@, 1, depth - 1),
                     !.pc = IF depth = 1 THEN "returned" ELSE @]
           ELSE LET doc == top.children[top.k]
                    printed ==
                      [printing EXCEPT
                         !.stdout = Append(@, [prefix |-> depth - 1,
                                               visible_name |->
                                                   doc.visible_name,
                                               id |-> doc.id]),
                         !.stack[depth].k = @ + 1]
                IN  IF printing.recurse
                    THEN printing' =
                           entered(printed, by_id, order,
                                   << joined(top.path, doc.visible_name) >>,
                                   doc.id)
                    ELSE printing' = printed
    /\ UNCHANGED <<by_id, order, query, after, walk, fetch, refresh>>
    /\ UNCHANGED NotWalkVars

NextPrint ==
    \/ \E path \in OptionPaths, recurse \in BOOLEAN,
          ord \in Orders(DOMAIN by_id) : print_documents(path, recurse, ord)
    \/ Turn

\* a call that has been made keeps running
SpecPrint == InitPrint /\ [][NextPrint]_vars /\ WF_vars(Turn)

(***************************************************************************)
(* Client::get_document_by_id: the request for one document and the        *)
(* answer of the remote, a list of documents.                              *)
(***************************************************************************)
\* the call, up to the first await
get_document_by_id(id) ==
    /\ fetch.pc = "idle"
    /\ fetch' = [fetch EXCEPT
                    !.pc = "awaiting", !.id = id,
                    !.sent = << document_by_id_request(client_state, id) >>]
    /\ UNCHANGED <<after, walk, printing, refresh>>
    /\ UNCHANGED NotCallVars

\* from the answer to the return
DocumentListAnswered(answer) ==
    /\ fetch.pc = "awaiting"
    /\ fetch' = [fetch EXCEPT !.pc = "returned", !.answer = answer,
                              !.out = document_by_id(fetch.id, answer)]
    /\ UNCHANGED <<after, walk, printing, refresh>>
    /\ UNCHANGED NotCallVars

NextFetch ==
    \/ \E id \in Uuids : get_document_by_id(id)
    \/ /\ fetch.pc = "awaiting"
       /\ \E answer \in JsonAnswers(SeqDocuments) :
             DocumentListAnswered(answer)

SpecFetch == Init /\ [][NextFetch]_vars

(***************************************************************************)
(* Client::refresh_state and the two functions it calls, each also called  *)
(* on its own.  They take &mut self: one runs at a time, and a call may    *)
(* follow one that returned.                                               *)
(***************************************************************************)
\* the call of fn, up to its first await; entry is the client state it
\* was called with
Refresh(fn) ==
    /\ refresh.pc \in {"idle", "returned"}
    /\ refresh' =
         [fn |-> fn,
          pc |-> IF fn = "refresh_storage_endpoint" THEN "storage"
                 ELSE "token",
          sent |-> IF fn = "refresh_storage_endpoint"
                   THEN << storage_request(client_state) >>
                   ELSE << token_request(client_state) >>,
          recv |-> << >>, stderr |-> << >>, result |-> NotReturned,
          entry |-> client_state]
    /\ UNCHANGED <<client_state, after, walk, printing, fetch>>
    /\ UNCHANGED NotRefreshVars

refresh_state == Refresh("refresh_state")

refresh_token == Refresh("refresh_token")

refresh_storage_endpoint == Refresh("refresh_storage_endpoint")

\* refresh_token from the answer on and, in refresh_state, the ? and the
\* call of refresh_storage_endpoint up to its await
TokenAnswered(answer) ==
    /\ refresh.pc = "token"
    /\ LET o == token_answered(client_state, answer)
       IN  /\ client_state' = o.state
           /\ IF ~o.result.ok \/ refresh.fn = "refresh_token"
              THEN refresh' = [refresh EXCEPT !.pc = "returned",
                                              !.recv = Append(@, answer),
                                              !.result = o.result]
              ELSE refresh' = [refresh EXCEPT
                                 !.pc = "storage",
                                 !.recv = Append(@, answer),
                                 !.sent = Append(@, storage_request(o.state))]
    /\ UNCHANGED <<after, walk, printing, fetch>>
    /\ UNCHANGED NotRefreshVars

\* refresh_storage_endpoint from the answer on and, in refresh_state, the
\* ? and Ok(())
StorageAnswered(answer) ==
    /\ refresh.pc = "storage"
    /\ LET o == storage_answered(client_state, answer)
       IN  /\ client_state' = o.state
           /\ refresh' = [refresh EXCEPT !.pc = "returned",
                                         !.recv = Append(@, answer),
                                         !.stderr = @ \o o.lines,
                                         !.result = o.result]
    /\ UNCHANGED <<after, walk, printing, fetch>>
    /\ UNCHANGED NotRefreshVars

NextRefresh ==
    \/ refresh_state
    \/ refresh_token
    \/ refresh_storage_endpoint
    \/ \E answer \in TokenAnswers : TokenAnswered(answer)
    \/ \E answer \in StorageAnswers : StorageAnswered(answer)

SpecRefresh == Init /\ [][NextRefresh]_vars

(***************************************************************************)
(* Claims about the upload protocol (Spec).                                *)
(***************************************************************************)
Terminated == pc \in {"Done", "Failed", "Panicked"}
ReturnedError == pc = "Failed" /\ ~result.ok /\ result.err \in Error
Kinds == [i \in DOMAIN sent |-> sent[i].kind]

\* C1: in upload_zip the archive PUT to the signed url is the caller's
\* archive rekeyed to the id of the accepted upload-request response.
C1_BlobIsRekeyedToConfirmedId ==
    \A i \in DOMAIN sent :
        (args.fn = "upload_zip" /\ sent[i].kind = "blob_put")
            => /\ sent[i].url = upload_req_response.blob_url_put
               /\ sent[i].body =
                     replace_id_in_zip(upload_req_response.id, args.zip).val

\* C2: an update-status array of zero or of several records ends the
\* invocation with the remote-protocol error: no panic, no id.
C2_NotSingleIsError ==
    (Len(recv) = 3 /\ recv[3].t = "json" /\ recv[3].len # 1)
        => (pc = "Failed" /\ result = Err("RmCloudError"))

\* all three phases succeeded in this invocation
AllPhasesSucceeded ==
    /\ Len(recv) = 3
    /\ recv[1].t = "json" /\ recv[1].success
    /\ recv[2].t = "http" /\ recv[2].status = 200
    /\ recv[3].t = "json" /\ recv[3].success

\* C3: an id is returned only if the three phases succeeded; every other
\* run ends in the failed outcome, an error returned.
C3_IdOnlyAfterThreePhases ==
    /\ result.ok => AllPhasesSucceeded
    /\ (Terminated /\ ~AllPhasesSucceeded) => ReturnedError

\* C4: at most one request is in flight; the blob PUT is the second
\* request, sent once the upload-request answer is received and accepted;
\* the update-status request is the third, sent once the blob PUT is
\* answered with 200.
C4_PhasesStrictlyOrdered ==
    /\ Len(recv) <= Len(sent)
    /\ Len(sent) <= Len(recv) + 1
    /\ \A i \in DOMAIN sent :
          /\ sent[i].kind = "upload_request" => i = 1
          /\ sent[i].kind = "blob_put"
                => /\ i = 2
                   /\ Len(recv) >= 1
                   /\ recv[1].t = "json" /\ recv[1].len > 0
                   /\ recv[1].success
          /\ sent[i].kind = "update_status"
                => /\ i = 3
                   /\ Kinds[2] = "blob_put"
                   /\ Len(recv) >= 2
                   /\ recv[2].t = "http" /\ recv[2].status = 200

\* the update-status request is in flight, after a blob PUT answered 200
C4_Witness ==
    /\ pc = "Confirming"
    /\ Kinds = << "upload_request", "blob_put", "update_status" >>
    /\ Len(recv) = 2

\* C5, as claimed: create_folder returns the id of the upload-request
\* response, whatever the remote answers.
C5_ReturnsUploadRequestId ==
    (args.fn = "create_folder" /\ pc = "Done")
        => result = Ok(upload_req_response.id)

\* C5, amended: create_folder returns the id of the update-status record,
\* which is the id of the upload-request response whenever that record
\* carries the id of the draft it answers.
C5_ReturnsUpdateStatusId ==
    (args.fn = "create_folder" /\ pc = "Done")
        => /\ result = Ok(update_status.id)
           /\ update_status.id = upload_doc.id
                 => result = Ok(upload_req_response.id)

\* create_folder returned the id the remote assigned, not the one proposed
C5_Witness ==
    /\ args.fn = "create_folder" /\ pc = "Done"
    /\ upload_req_response.id # args.id
    /\ update_status.id = upload_doc.id
    /\ result = Ok(upload_req_response.id)

\* C6: the update-status body is one record carrying the id of the
\* upload-request response and the caller's parent and visible name.
C6_UpdateStatusCarriesConfirmedId ==
    \A i \in DOMAIN sent :
        sent[i].kind = "update_status"
            => /\ Len(sent[i].body) = 1
               /\ sent[i].body[1].id = upload_req_response.id
               /\ sent[i].body[1].parent = args.parent
               /\ sent[i].body[1].visible_name = args.visible_name

\* an update-status request for an id the remote reassigned
C6_Witness ==
    /\ pc = "Confirming"
    /\ upload_req_response.id # args.id
    /\ sent[3].body[1].id = upload_req_response.id

\* the Requesting phase failed: transport error, success = false, or an
\* empty list
RequestingFailed ==
    /\ Len(recv) >= 1
    /\ \/ recv[1].t = "transport"
       \/ recv[1].t = "json" /\ recv[1].len = 0
       \/ recv[1].t = "json" /\ recv[1].len > 0 /\ ~recv[1].success

\* C7: when Requesting fails the invocation returns an error and the
\* upload request, sent once, is the only request of the invocation.
C7_RequestingFailureHalts ==
    RequestingFailed
        => /\ ReturnedError
           /\ Kinds = << "upload_request" >>
           /\ Len(recv) = 1

\* the remote refused the upload request
C7_Witness ==
    /\ pc = "Failed"
    /\ recv[1].t = "json" /\ recv[1].len > 0 /\ ~recv[1].success

\* C8: when the blob PUT is answered with a status other than 200 the
\* invocation returns an error and has sent the upload request and the
\* blob PUT only: no update-status request, no request undoing anything.
C8_UploadFailureHalts ==
    (Len(recv) >= 2 /\ recv[2].t = "http" /\ recv[2].status # 200)
        => /\ ReturnedError
           /\ Kinds = << "upload_request", "blob_put" >>
           /\ Len(recv) = 2

\* the blob PUT was answered with a 2xx status that is not 200
C8_Witness ==
    /\ pc = "Failed"
    /\ Len(recv) = 2 /\ recv[2].t = "http" /\ recv[2].status = 204

Phases == {"Requesting", "Uploading", "Confirming"}

\* every call the model makes
CallArgs ==
    {upload_zip_args(id, n, p, z) :
        id \in Uuids, n \in VisibleNames, p \in Parent, z \in Zips}
      \cup {create_folder_args(id, n, p) :
              id \in Uuids, n \in VisibleNames, p \in Parent}

\* [phase, error returned] of every way the three stretches of code
\* fail, whatever the call and the answer
Failure(ph, o) == [phase |-> ph, err |-> o.result.err]

RequestedFailures ==
    {Failure(o.phase, o) :
        o \in {x \in {requested(LoadedState, a, draft_of(a), answer) :
                        a \in CallArgs,
                        answer \in JsonAnswers(UploadRequestResponse)} :
                  x.pc = "Failed"}}

UploadedFailures ==
    {Failure("Uploading", o) :
        o \in {x \in {uploaded(LoadedState, NoDoc, answer) :
                        answer \in BlobAnswers} :
                  x.pc = "Failed"}}

ConfirmedFailures ==
    {Failure("Confirming", o) :
        o \in {x \in {confirmed(answer) :
                        answer \in JsonAnswers(UpdateStatusResponse)} :
                  x.pc = "Failed"}}

Failures == RequestedFailures \cup UploadedFailures \cup ConfirmedFailures

\* C9: the error returned tells the phase that failed: no other phase
\* returns the same error.
C9_ErrorIdentifiesPhase ==
    pc = "Failed"
        => \A f \in Failures : f.err = result.err => f.phase = phase

\* the arrays of more than one record the remote may answer
MultiRecordAnswers ==
    {answer \in JsonAnswers(UploadRequestResponse) : Len(answer.records) > 1}

\* C27: when the array answered to the upload request has more than one
\* record, the invocation goes on as the last record says and as if that
\* record had come alone: refused when its success flag is false, and
\* else with its id as the confirmed id and its url as the signed url.
C27_LastRecordOfTheArrayIsUsed ==
    pc = "Requesting"
        => \A answer \in MultiRecordAnswers :
             LET last == answer.records[Len(answer.records)]
                 alone == [answer EXCEPT !.records = << last >>]
                 o == requested(client_state, args, upload_doc, answer)
             IN  /\ o = requested(client_state, args, upload_doc, alone)
                 /\ ~last.success
                      => /\ o.pc = "Failed" /\ o.phase = "Requesting"
                         /\ o.result = Err("RmCloudError")
                         /\ o.requests = << >>
                 /\ last.success
                      => /\ o.upload_req_response = last
                         /\ o.upload_doc.id = last.id
                         /\ o.pc = "Uploading"
                              => o.requests[1].url = last.blob_url_put

\* an array of two records was answered, and the invocation went on to
\* the upload with a confirmed id that is not the one it proposed
C27_Witness ==
    /\ pc = "Uploading"
    /\ Len(recv) = 1 /\ recv[1].t = "json" /\ recv[1].len = 2
    /\ upload_req_response.success
    /\ upload_doc.id = upload_req_response.id
    /\ upload_req_response.id # args.id
    /\ sent[2].url = upload_req_response.blob_url_put

(***************************************************************************)
(* Claims about two invocations (SpecPair).                                *)
(***************************************************************************)
\* the locals of the first invocation
This ==
    [pc |-> pc, phase |-> phase, args |-> args, upload_doc |-> upload_doc,
     upload_req_response |-> upload_req_response,
     update_status |-> update_status, sent |-> sent, recv |-> recv,
     stderr |-> stderr, result |-> result]

\* what an invocation sent and returned follows from its own arguments
\* and from the records it received
OwnOnly(inv) ==
    /\ \A i \in DOMAIN inv.sent :
          /\ inv.sent[i].kind = "blob_put"
                => /\ inv.sent[i].url = inv.upload_req_response.blob_url_put
                   /\ inv.sent[i].body =
                         IF inv.args.fn = "upload_zip"
                         THEN replace_id_in_zip(inv.args.id, inv.args.zip).val
                         ELSE << Entry(<<to_string(inv.upload_req_response.id),
                                         Lit(".content")>>, "{}") >>
          /\ inv.sent[i].kind = "update_status"
                => /\ Len(inv.sent[i].body) = 1
                   /\ inv.sent[i].body[1].id = inv.upload_req_response.id
                   /\ inv.sent[i].body[1].parent = inv.args.parent
                   /\ inv.sent[i].body[1].visible_name = inv.args.visible_name
    /\ inv.result.ok => inv.result = Ok(inv.update_status.id)

\* C19: with two invocations on one Client interleaved at their awaits,
\* the archive each PUTs, the url it PUTs it to, its update-status body and
\* the id it returns follow from its own arguments and the answers to its
\* own requests, never from the id or the url confirmed to the other.
C19_InvocationsDoNotMix ==
    OwnOnly(This) /\ OwnOnly(other)

\* both invocations went through, with different confirmed ids, different
\* signed urls and different ids returned
C19_Witness ==
    /\ pc = "Done" /\ other.pc = "Done"
    /\ upload_req_response.id # other.upload_req_response.id
    /\ upload_req_response.blob_url_put # other.upload_req_response.blob_url_put
    /\ result # other.result
    /\ other.sent[2].url = other.upload_req_response.blob_url_put
    /\ other.sent[3].body[1].id = other.upload_req_response.id

(***************************************************************************)
(* Claims about the index (SpecIndex).                                     *)
(***************************************************************************)
\* C10: a document whose parent is Root or Trash is returned only for a
\* path with nothing before its last component.
C10_RootOrTrashOnlyWithoutPrefix ==
    (query.asked /\ query.found # None
       /\ by_id[query.found].parent.tag \in {"Root", "Trash"})
        => Len(query.path.components) <= 1

\* no two documents with the same parent share a visible_name
UniqueNames(docs) ==
    \A u, v \in DOMAIN docs :
        (u # v /\ docs[u].parent = docs[v].parent)
            => docs[u].visible_name # docs[v].visible_name

\* the top-down walk: the i-th component is looked for among the documents
\* whose parent is the node resolved so far, from Root
RECURSIVE TopDownFrom(_, _, _, _)
TopDownFrom(docs, components, parent, i) ==
    LET named == {u \in DOMAIN docs : /\ docs[u].parent = parent
                                      /\ docs[u].visible_name = components[i]}
    IN  IF named = {} THEN None
        ELSE IF i = Len(components) THEN CHOOSE u \in named : TRUE
        ELSE TopDownFrom(docs, components,
                         Node(CHOOSE u \in named : TRUE), i + 1)

\* C23: in an index where no two documents with the same parent share a
\* visible_name, get_by_path of a path of one component or more returns
\* what the top-down walk from Root returns: the same document, or
\* nothing in both.
C23_SameAnswerAsTopDownWalk ==
    (query.asked /\ Len(query.path.components) > 0 /\ UniqueNames(by_id))
        => query.found = TopDownFrom(by_id, query.path.components, Root, 1)

\* the index holds exactly A at the root, B in A and C in B
IsTreeABC ==
    /\ DOMAIN by_id = {1, 2, 3}
    /\ by_id[1] = TreeA /\ by_id[2] = TreeB /\ by_id[3] = TreeC

RelativePath(components) == [has_root |-> FALSE, components |-> components]

\* C11: in the tree A, B in A, C in B, the path A/B/C yields C and the
\* path A/X yields nothing; and in every index a document with a Node
\* parent is returned for a path of several components only if that parent
\* is the document the path without its last component resolves to.
C11_ResolvesThroughParents ==
    query.asked
        => /\ (IsTreeABC /\ query.path = RelativePath(<<"A", "B", "C">>))
                 => query.found = Some(3)
           /\ (IsTreeABC /\ query.path = RelativePath(<<"A", "X">>))
                 => query.found = None
           /\ (/\ query.found # None
               /\ by_id[query.found].parent.tag = "Node"
               /\ Len(query.path.components) >= 2)
                 => LET prefix ==
                          get_by_path(by_id, order, parent_of(query.path))
                    IN  /\ prefix # None
                        /\ by_id[prefix].id = by_id[query.found].parent.id

\* A/B/C was asked of the tree and C came back
C11_Witness ==
    /\ query.asked /\ IsTreeABC
    /\ query.path = RelativePath(<<"A", "B", "C">>)
    /\ query.found = Some(3)

(***************************************************************************)
(* Claims about the index deserialized from a sequence (SpecSeq).          *)
(***************************************************************************)
\* the elements next_element has yielded, and their ids
Consumed == SubSeq(input, 1, seq_pos)
ConsumedIds == {Consumed[i].id : i \in DOMAIN Consumed}
UniqueIds ==
    \A i, j \in DOMAIN input : input[i].id = input[j].id => i = j

\* C17: of the index built from a list with unique ids, get(id) yields the
\* record of the list with that id, and nothing for an id not in the
\* list; children(parent) yields, once each, the records of the list
\* whose parent is the same variant with the same id in it.
C17_GetAndChildrenOfFlatList ==
    (Deserialized /\ UniqueIds)
        => /\ lookup.fn = "get"
                 => \/ /\ lookup.found = << >>
                       /\ \A i \in DOMAIN input : input[i].id # lookup.uuid
                    \/ \E i \in DOMAIN input :
                          /\ input[i].id = lookup.uuid
                          /\ lookup.found = << input[i] >>
           /\ lookup.fn = "children"
                 => /\ {lookup.found[i] : i \in DOMAIN lookup.found}
                         = {input[i] : i \in {j \in DOMAIN input :
                                                 input[j].parent = lookup.parent}}
                    /\ \A i, j \in DOMAIN lookup.found :
                          lookup.found[i] = lookup.found[j] => i = j

\* children(Node(u)) left out a record in Node of another uuid
C17_Witness ==
    /\ Deserialized /\ UniqueIds
    /\ lookup.fn = "children" /\ lookup.parent.tag = "Node"
    /\ Len(lookup.found) = 1
    /\ \E i \in DOMAIN input :
          input[i].parent.tag = "Node" /\ input[i].parent # lookup.parent

\* C20: the index holds, for every id of the list, the last record of the
\* list with that id; it holds as many records as the list has distinct
\* ids, in whatever order these come.
C20_LastRecordOfAnIdWins ==
    /\ DOMAIN by_id = ConsumedIds
    /\ Cardinality(DOMAIN by_id) = Cardinality(ConsumedIds)
    /\ \A i \in DOMAIN Consumed :
          (\A j \in DOMAIN Consumed : Consumed[j].id = Consumed[i].id => j <= i)
              => by_id[Consumed[i].id] = Consumed[i]

\* a list with the same id twice, in two different records, was read
C20_Witness ==
    /\ Deserialized
    /\ Len(input) = 2
    /\ input[1].id = input[2].id /\ input[1] # input[2]
    /\ Cardinality(DOMAIN by_id) = 1
    /\ by_id[input[2].id] = input[2]

(***************************************************************************)
(* Claims about removal (SpecRemove).                                      *)
(***************************************************************************)
\* a step of remove, and a step of one of the calls that read
RemoveStep == lookup'.fn = "remove" /\ <<lookup, by_id>>' # <<lookup, by_id>>
ReadStep ==
    \/ lookup'.fn \in {"get", "children", "len", "iter"} /\ lookup' # lookup
    \/ query'.asked /\ ~query.asked

\* C21: remove(id) returns the record stored under id and takes it out, so
\* that get(id) and another remove(id) find nothing afterwards; the other
\* records stay as they are, and nothing changes when id is not there.
\* get, children, get_by_path, len and iter leave the index as it is.
C21_RemoveTakesOneRecordOut ==
    [][/\ RemoveStep
            => /\ lookup'.found = get(by_id, lookup'.uuid)
               /\ DOMAIN by_id' = DOMAIN by_id \ {lookup'.uuid}
               /\ \A u \in DOMAIN by_id' : by_id'[u] = by_id[u]
               /\ get(by_id', lookup'.uuid) = << >>
               /\ (lookup.fn = "remove" /\ lookup.uuid = lookup'.uuid)
                     => lookup'.found = << >>
               /\ lookup'.uuid \notin DOMAIN by_id => by_id' = by_id
       /\ ReadStep => by_id' = by_id]_vars

\* a record was taken out of an index that holds another
C21_Witness ==
    /\ lookup.fn = "remove"
    /\ lookup.found # << >>
    /\ DOMAIN by_id # {}
    /\ lookup.uuid \notin DOMAIN by_id

(***************************************************************************)
(* Claims about archives (SpecZip).                                        *)
(***************************************************************************)
\* C12: id_from_zip of the archive replace_id_in_zip(new_id, a) wrote is
\* new_id, for every archive a with an entry <uuid>.content that parses.
C12_RekeyedArchiveYieldsNewId ==
    (zip_from.written /\ zip_call.fn = "id_from_zip")
        => zip_call.out = Ok(zip_from.new_id)

ReplaceReturned == zip_call.fn = "replace_id_in_zip" /\ zip_call.out.ok

\* C13: the archive replace_id_in_zip writes has as many entries as the
\* one it read, in the same order, each with the payload it had.
C13_RekeyKeepsEntriesAndPayloads ==
    ReplaceReturned
        => /\ Len(zip_call.out.val) = Len(archive)
           /\ \A i \in DOMAIN archive :
                 zip_call.out.val[i].data = archive[i].data

\* two entries with different payloads were renamed
C13_Witness ==
    /\ ReplaceReturned
    /\ Len(archive) = 2
    /\ archive[1].data # archive[2].data
    /\ \A i \in DOMAIN archive : zip_call.out.val[i].name # archive[i].name

\* the text of the id the archive is keyed with, and of the new id
OldIdText == to_string(id_from_zip(archive).val)
NewIdText == to_string(zip_call.new_id)

\* C14: in every entry name replace_id_in_zip puts the text of the new id
\* wherever the text of the old id stands, as often as it stands there,
\* and leaves the rest of the name, and names without the old id, alone.
C14_EveryOccurrenceInEveryName ==
    ReplaceReturned
        => \A i \in DOMAIN archive :
              LET old_name == archive[i].name
                  new_name == zip_call.out.val[i].name
              IN  /\ Len(new_name) = Len(old_name)
                  /\ \A j \in DOMAIN old_name :
                        new_name[j] = IF old_name[j] = OldIdText
                                      THEN NewIdText ELSE old_name[j]

\* a name holding the old id twice was rewritten in both places, next to
\* the .content entry
C14_Witness ==
    /\ ReplaceReturned
    /\ OldIdText # NewIdText
    /\ \E i, k \in DOMAIN archive :
          /\ archive[i].name = <<OldIdText, Lit("/"), OldIdText, Lit(".rm")>>
          /\ zip_call.out.val[i].name =
                <<NewIdText, Lit("/"), NewIdText, Lit(".rm")>>
          /\ archive[k].name = <<OldIdText, Lit(".content")>>

\* C15: replace_id_in_zip with the id the archive is keyed with writes
\* the archive it read: same names, same order, same payloads.
C15_RekeyWithSameIdIsIdentity ==
    (ReplaceReturned /\ zip_call.new_id = id_from_zip(archive).val)
        => zip_call.out.val = archive

\* an archive keyed with one id, holding a name with another, was rekeyed
\* with the id it has
C15_Witness ==
    /\ ReplaceReturned
    /\ zip_call.new_id = id_from_zip(archive).val
    /\ zip_call.out.val = archive
    /\ \E i \in DOMAIN archive :
          \E j \in DOMAIN archive[i].name :
             /\ archive[i].name[j].k = "uuid"
             /\ archive[i].name[j].u # zip_call.new_id

\* the entries whose name ends with .content
ContentEntries == {i \in DOMAIN archive : ends_with_content(archive[i].name)}

\* a name without its last piece, the suffix
StripSuffix(name) == SubSeq(name, 1, Len(name) - 1)

\* C16: id_from_zip decides on the first entry ending with .content: the
\* id is the name without that suffix, parsed; the error is InvalidZip
\* when there is no such entry and when the remainder does not parse.
C16_FirstContentEntryDecides ==
    zip_call.fn = "id_from_zip"
        => IF ContentEntries = {}
           THEN zip_call.out = Err("InvalidZip")
           ELSE LET first == CHOOSE i \in ContentEntries :
                                 \A k \in ContentEntries : i <= k
                    uuid == parse_str(StripSuffix(archive[first].name))
                IN  IF uuid.ok THEN zip_call.out = Ok(uuid.id)
                    ELSE zip_call.out = Err("InvalidZip")

\* C22: prepare_empty_zip_content(id) returns an archive of one entry,
\* named <id>.content with the id in hyphenated form, holding the two
\* bytes {}.
C22_EmptyArchiveHasOneContentEntry ==
    zip_call.fn = "prepare_empty_zip_content"
        => /\ zip_call.out.ok
           /\ Len(zip_call.out.val) = 1
           /\ zip_call.out.val[1].name =
                 << UuidText(zip_call.new_id, "hyphenated"), Lit(".content") >>
           /\ zip_call.out.val[1].data = "{}"

\* the archive made for an id was opened and id_from_zip found that id
C22_Witness ==
    /\ zip_from.written
    /\ Len(archive) = 1 /\ archive[1].data = "{}"
    /\ archive[1].name = << UuidText(zip_from.new_id, "hyphenated"),
                            Lit(".content") >>
    /\ zip_call.fn = "id_from_zip" /\ zip_call.out = Ok(zip_from.new_id)
    /\ zip_from.zip # archive

(***************************************************************************)
(* Claims about the update-status request (SpecAfter).                     *)
(***************************************************************************)
\* C24: the request after_upload builds has the id and the version of the
\* upload-request response, the type of the upload request (DocumentType
\* of new_notebook, CollectionType of new_folder), and the parent and the
\* visible name it was called with.
C24_AfterUploadCarriesResponseIdAndVersion ==
    after.called
        => /\ after.out.id = after.upload_request_response.id
           /\ after.out.version = after.upload_request_response.version
           /\ after.out.doc_type = after.upload_request.doc_type
           /\ after.out.doc_type \in {"DocumentType", "CollectionType"}
           /\ after.out.parent = after.parent
           /\ after.out.visible_name = after.visible_name
           /\ after.out.modified_client \in Instants

\* a folder request answered with another id and another version
C24_Witness ==
    /\ after.called
    /\ after.upload_request.doc_type = "CollectionType"
    /\ after.out.doc_type = "CollectionType"
    /\ after.upload_request_response.id # after.upload_request.id
    /\ after.upload_request_response.version # after.upload_request.version
    /\ after.out.version = after.upload_request_response.version
    /\ after.out.parent.tag = "Node"

(***************************************************************************)
(* Claims about get_by_path as it runs (SpecWalk).                         *)
(***************************************************************************)
\* some document is reached again by following parent references
HasParentCycle(docs) ==
    \E u \in DOMAIN docs :
        \/ docs[u].parent = Node(u)
        \/ \E v \in DOMAIN docs \ {u} :
              docs[u].parent = Node(v) /\ docs[v].parent = Node(u)

\* some document names a parent that is not in the index
HasDanglingParent(docs) ==
    \E u \in DOMAIN docs :
        docs[u].parent.tag = "Node" /\ docs[u].parent.id \notin DOMAIN docs

\* C25: every get_by_path, whatever the index (parents that dangle or form
\* a cycle included) and the path (the empty one included), comes to
\* return, and what it returns is a document of the index or nothing; it
\* never exhausts the stack.
C25_GetByPathTerminates ==
    /\ [](walk.pc # "overflow")
    /\ [](walk.pc = "returned" => walk.result \in DOMAIN by_id \cup {None})
    /\ [](walk.deepest <= Len(walk.path.components) + 1)
    /\ (walk.pc = "running" ~> walk.pc = "returned")

\* a call for a path of two components returned nothing on an index whose
\* parent references form a cycle, after calling itself down to the empty
\* path
C25_Witness ==
    /\ walk.pc = "returned"
    /\ Len(walk.path.components) = 2
    /\ HasParentCycle(by_id)
    /\ walk.deepest = 3
    /\ walk.result = None

(***************************************************************************)
(* Claims about print_documents (SpecPrint).                               *)
(***************************************************************************)
\* the documents from u up to one without a parent in the index, by
\* following parent; -1 when n documents were followed without an end
RECURSIVE LevelOf(_, _, _)
LevelOf(docs, u, n) ==
    IF n = 0 THEN -1
    ELSE IF docs[u].parent \notin DOMAIN docs THEN 1
    ELSE LET above == LevelOf(docs, docs[u].parent, n - 1)
         IN  IF above = -1 THEN -1 ELSE above + 1

Level(docs, u) == LevelOf(docs, u, Cardinality(DOMAIN docs))

Acyclic(docs) == \A u \in DOMAIN docs : Level(docs, u) # -1

TreeDepth(docs) ==
    IF DOMAIN docs = {} THEN 0
    ELSE CHOOSE n \in 1..Cardinality(DOMAIN docs) :
           /\ \E u \in DOMAIN docs : Level(docs, u) = n
           /\ \A u \in DOMAIN docs : Level(docs, u) <= n

\* C26: on an index without a cycle of parents, print_documents with
\* recurse ends: every call made for a document lists the children of
\* that document, and the calls never nest deeper than the tree, the
\* first call counted.
C26_RecursionFollowsTheTree ==
    (printing.recurse /\ Acyclic(by_id))
        => /\ printing.pc # "overflow"
           /\ printing.deepest <= TreeDepth(by_id) + 1
           /\ \A i \in 2..Len(printing.stack) :
                 printing.stack[i].doc_id = printing.stack[i].for_doc

(***************************************************************************)
(* Claims about get_document_by_id (SpecFetch).                            *)
(***************************************************************************)
\* C28: get_document_by_id(id) answered with a list returns a record of
\* the list whose id is the one asked for when the list has one, whatever
\* else it holds, and the EmptyResult error when it has none; the record
\* returned never has another id.
C28_ReturnsTheDocumentAskedFor ==
    (fetch.pc = "returned" /\ fetch.answer.t = "json")
        => LET records == fetch.answer.records
               asked == {i \in 1..Len(records) : records[i].id = fetch.id}
           IN  /\ asked # {}
                    => /\ fetch.out.ok
                       /\ \E i \in asked : fetch.out.val = records[i]
               /\ asked = {}
                    => ~fetch.out.ok /\ fetch.out.err = "EmptyResult"
               /\ fetch.out.ok => fetch.out.val.id = fetch.id

\* the list held the document asked for and then another one
C28_Witness ==
    /\ fetch.pc = "returned"
    /\ Len(fetch.answer.records) = 2
    /\ fetch.answer.records[1].id = fetch.id
    /\ fetch.answer.records[2].id # fetch.id
    /\ fetch.out.ok
    /\ fetch.out.val = fetch.answer.records[1]
    /\ fetch.sent[1].query[2][2] = UuidText(fetch.id, "hyphenated")

(***************************************************************************)
(* Claims about the refresh of the client state (SpecRefresh).             *)
(***************************************************************************)
\* refresh_state asks for the token first, asks for the storage host only
\* after the token was answered, and returns without asking when the
\* token request failed
TokenBeforeStorage ==
    refresh.fn = "refresh_state"
        => /\ Len(refresh.sent) \in {1, 2}
           /\ refresh.sent[1].url = USER_TOKEN_URL
           /\ Len(refresh.sent) = 2
                => /\ refresh.sent[2].url = QUERY_STORAGE_URL
                   /\ refresh.recv # << >> /\ refresh.recv[1].t = "text"
           /\ (refresh.recv # << >> /\ refresh.recv[1].t = "transport")
                => /\ Len(refresh.sent) = 1
                   /\ refresh.pc = "returned"
                   /\ refresh.result = Err("HttpError")
                   /\ client_state = refresh.entry

\* refresh_storage_endpoint got its answer and returned
StorageReturns == refresh.pc = "storage" /\ refresh'.pc = "returned"

\* C29: refresh_state runs refresh_token before refresh_storage_endpoint
\* and skips the second when the first fails; refresh_storage_endpoint
\* sets the endpoint only for an answer with status OK, and when it
\* returns an error the endpoint, the user token and the device token are
\* as they were.
C29_RefreshOrderAndFrame ==
    /\ []TokenBeforeStorage
    /\ [][StorageReturns =>
            LET answer == refresh'.recv[Len(refresh'.recv)]
                ok == answer.t = "json" /\ answer.status = "OK"
            IN  /\ client_state'.endpoint # client_state.endpoint => ok
                /\ ok => /\ client_state'.endpoint = "https://" \o answer.host
                          /\ refresh'.result.ok
                /\ ~ok => ~refresh'.result.ok
                /\ ~refresh'.result.ok => client_state' = client_state
                /\ client_state'.user_token = client_state.user_token
                /\ client_state'.device_token = client_state.device_token
         ]_vars

\* a refresh_state got a new token, then a storage host answer whose
\* status is not OK: it returned the error, with the new token and the
\* endpoint it was called with
C29_Witness ==
    /\ refresh.fn = "refresh_state" /\ refresh.pc = "returned"
    /\ Len(refresh.recv) = 2
    /\ refresh.recv[2].t = "json" /\ refresh.recv[2].status # "OK"
    /\ refresh.result = Err("RmCloudError")
    /\ client_state.endpoint = refresh.entry.endpoint
    /\ client_state.endpoint # "https://" \o refresh.recv[2].host
    /\ client_state.user_token = refresh.recv[1].body
    /\ client_state.user_token # refresh.entry.user_token

(***************************************************************************)
(* Claims about the wire form of Parent (SpecWire).                        *)
(***************************************************************************)
\* C18: deserialize_rm_parent of what to_rm_string wrote is the Parent
\* written; no other Parent is written as the same string; and a string
\* that is not empty, not "trash" and not a uuid yields an error.
C18_ParentRoundTrips ==
    /\ (encoded.done /\ decoded.called)
          => decoded.out = ParentOk(encoded.parent)
    /\ encoded.done
          => \A q \in Parent : to_rm_string(q) = wire => q = encoded.parent
    /\ (/\ decoded.called
        /\ wire # << >>
        /\ wire # << Lit("trash") >>
        /\ ~parse_str(wire).ok)
          => decoded.out = ParentErr

\* Trash was written and read back
C18_Witness ==
    /\ encoded.done /\ encoded.parent = Trash
    /\ decoded.called /\ decoded.out = ParentOk(Trash)

====
